---- MODULE Spec2Model ----
(***************************************************************************)
(* Model of the grid-engine batch dispatcher of toil                       *)
(* (src/toil/batchSystems/abstractGridEngineBatchSystem.py): the front-end *)
(* (AbstractGridEngineBatchSystem), its worker thread (Worker), the four   *)
(* queues between them and the scheduler backend behind the worker's       *)
(* abstract hooks.                                                         *)
(***************************************************************************)
EXTENDS Integers, Sequences, FiniteSets, TLC

\* ------------------------------------------------------------------ bounds
\* Number of jobs the front-end issues (Spec, KillSpec, PollSpec, ShutdownSpec).
NJobs == 3
KillJobsN == 2
PollJobs == 1
ShutdownJobs == 2
\* Largest config.max_jobs, the cap on the running set.
MaxMaxJobs == 2
\* config.statePollingWait, in seconds.
statePollingWait == 2
\* Number of killBatchJobs calls of the front-end (Spec, KillSpec, PollSpec)
\* and the most ids one call names (Spec and PollSpec, KillSpec).
MaxKills == 1
KillCalls == 2
PollKills == 1
MaxKillSet == 2
KillSet == 2
\* Longest outcome script handed to with_retries in RetrySpec.
MaxOutcomes == 4
\* Number of steps of a workflow (TranslateSpec, JobGraphSpec), the most
\* sources one step names, and the pass at which a translator loop that has
\* not ended is cut off.
NSteps == 3
GraphSteps == 2
MaxSources == 2
MaxPasses == 5
\* Most files handed to one path mapper, most entries of a directory listing
\* or of a directory contents map, and the longest list of source values.
MaxFiles == 3
MaxListing == 3
MaxContents == 2
MaxValues == 3
\* The longest list a scatter input holds.
MaxAxis == 2
\* The processes that share the credential cache.
NProcs == 3
\* The ticks of the clock the expiry times are read against.
MaxClock == 2
\* The files the cache directory holds over a run, the renamed ones included.
MaxInodes == 3
\* The spot requests there are, and the longest list of them a caller passes.
MaxRequestIds == 2
MaxRequests == 3
\* The longest timeout, in sleeps of the waiter.
MaxTimeout == 2
\* The sleeps of the waiter that are followed.
MaxSleeps == 3
\* The files in the job store before the job, the files the tool leaves, and
\* the calls a job makes on its index and existing dictionaries.
MaxStored == 2
MaxLocal == 2
MaxFileCalls == 3
\* The files streamed to one tool, the chunks of a file, and the chunks a
\* pipe holds.
MaxStreams == 2
MaxChunks == 2
PipeCapacity == 1

\* --------------------------------------------------------- program constants
\* with_retries: maxTries = 3
maxTries == 3

\* ------------------------------------------------------------------ values
\* Python's None.
None == <<>>

\* An integer exit code returned by getJobExitCode.
IntStatus(n) == <<"int", n>>

\* A BatchJobExitReason returned by getJobExitCode.
ReasonStatus(r) == <<"reason", r>>

\* isinstance(status, BatchJobExitReason)
IsReason(status) == status # None /\ status[1] = "reason"

\* Exit codes the backend reports in this model (0 is the normal one).
ExitCodes == {0}

\* BatchJobExitReason members the backend reports in this model.
ExitReasons == {3}

\* The non-null values getJobExitCode may return.
FinalStatuses == {IntStatus(n) : n \in ExitCodes} \cup {ReasonStatus(r) : r \in ExitReasons}


\* The JobTuple issueBatchJob puts on newJobsQueue:
\* (jobID, cores, memory, command, jobName, environment, gpus).
JobTuple(jobID) == <<jobID, 1, 1, "command", "kind", "env", 0>>

\* The batch id the scheduler hands out for its n-th submission.
BatchID(n) == 100 + n

Range(s) == {s[i] : i \in 1..Len(s)}

\* list.remove(x) when x is at index i.
RemoveAt(s, i) == SubSeq(s, 1, i - 1) \o SubSeq(s, i + 1, Len(s))

\* The list without the elements in S, order kept.
RECURSIVE Without(_, _)
Without(s, S) ==
    IF s = <<>> THEN <<>>
    ELSE IF Head(s) \in S THEN Without(Tail(s), S)
         ELSE <<Head(s)>> \o Without(Tail(s), S)

\* All orders in which a set can be iterated.
RECURSIVE Orderings(_)
Orderings(S) ==
    IF S = {} THEN {<<>>}
    ELSE UNION {{<<x>> \o t : t \in Orderings(S \ {x})} : x \in S}

\* ------------------------------------------------------------ with_retries
\* One call of the operation ends "ok", with a CalledProcessErrorStderr
\* ("cpe") or with any other exception ("other").
Outcomes == {"ok", "cpe", "other"}

\* The outcome scripts of at most n calls.
RECURSIVE Scripts(_)
Scripts(n) ==
    IF n = 0 THEN {<<>>}
    ELSE Scripts(n - 1) \cup {Append(s, o) : s \in Scripts(n - 1), o \in Outcomes}

RECURSIVE retry_loop(_, _)
RECURSIVE retry_loop_once_more(_, _)
\* A with_retries that tests tries <= maxTries.
retry_loop_once_more(outs, tries) ==
    LET t == tries + 1 IN
    IF t > Len(outs) THEN [calls |-> tries, end |-> "pending", at |-> 0]
    ELSE IF outs[t] = "ok" THEN [calls |-> t, end |-> "returned", at |-> t]
    ELSE IF outs[t] = "cpe" THEN
        IF t <= maxTries THEN retry_loop_once_more(outs, t)
        ELSE [calls |-> t, end |-> "cpe", at |-> t]
    ELSE [calls |-> t, end |-> "other", at |-> t]

\* The loop of with_retries from try number `tries` on, against the script
\* `outs` of call outcomes: the number of calls made, how it ended
\* ("returned", "cpe" or "other" raised) and the index of the call whose
\* result or error comes out.  A script that runs out ends as "pending".
retry_loop(outs, tries) ==
    LET t == tries + 1 IN
    IF t > Len(outs) THEN [calls |-> tries, end |-> "pending", at |-> 0]
    ELSE IF outs[t] = "ok" THEN [calls |-> t, end |-> "returned", at |-> t]
    ELSE IF outs[t] = "cpe" THEN
        IF t < maxTries THEN retry_loop(outs, t)
        ELSE [calls |-> t, end |-> "cpe", at |-> t]
    ELSE [calls |-> t, end |-> "other", at |-> t]

with_retries(outs) == retry_loop(outs, 0)

\* The scripts under which with_retries comes to an end.
RetryScripts == {s \in Scripts(maxTries + 1) : with_retries(s).end # "pending"}

\* The ways a with_retries call can end: "returned", or "cpe" or "other" raised.
RetryEnds == {with_retries(s).end : s \in RetryScripts}

\* -------------------------------------------------------------------- state
VARIABLES
    \* front-end (AbstractGridEngineBatchSystem)
    nextJobID,          \* the id getNextJobID returns next
    currentJobs,        \* self.currentJobs
    newJobsQueue,       \* self.newJobsQueue's contents
    killQueue,          \* self.killQueue's contents
    updatedLog,         \* every item ever put on updatedJobsQueue
    updatedRead,        \* how many of them getUpdatedBatchJob has taken
    killedLog,          \* every id ever put on killedJobsQueue
    killedRead,         \* how many of them killBatchJobs has taken
    fpc,                \* where the front-end thread is
    killPending,        \* jobIDs of the killBatchJobs call in progress
    kills,              \* number of killBatchJobs calls so far
    runningCache,       \* self._getRunningBatchJobIDsCache (its keys)
    runningCacheTS,     \* datetime.now() - self._getRunningBatchJobIDsTimestamp
    \* worker thread (Worker)
    pc,                 \* where the worker thread is
    newJob,             \* _runStep's newJob
    waitingJobs,        \* self.waitingJobs
    runningJobs,        \* self.runningJobs
    batchJobIDs,        \* self.batchJobIDs
    killList,           \* killJobs' killList while it waits for the kills
    checkCache,         \* self._checkOnJobsCache
    checkTS,            \* datetime.now() - self._checkOnJobsTimestamp
    \* scheduler backend and configuration
    sched,              \* batch id -> what getJobExitCode returns for it
    max_jobs,           \* config.max_jobs
    \* observations
    lastCheck,          \* the last checkOnJobs call: <<real?, status queries, returned>>
    sinceCheck,         \* seconds since the last checkOnJobs call
    lastRunning,        \* the last getRunningBatchJobIDs call:
                        \* <<real?, returned what was cached?, age of the cache>>
    queryAge,           \* seconds since the last real query of the scheduler
    close,              \* have two real queries come less than statePollingWait apart
    hist,               \* what has happened to the job ids so far: the ids appended
                        \* to and popped from waitingJobs, in order; those killJob
                        \* was called for, those killed while in waitingJobs, those
                        \* whose kill was confirmed; the call that raised, if any
    retry,              \* RetrySpec: a script and what with_retries made of it
    \* CWL workflow translator (CWLWorkflow.run) and the jobs it makes
    wf,                 \* self.cwlwf: the steps, in list order, and the output
    tr,                 \* CWLWorkflow.run's locals and the edges it has added
    ex,                 \* which jobs of the job graph have started and finished
    call,               \* CwlSpec: a function of cwltoil.py, its arguments, its result
    \* credential cache (toil/__init__.py) and spot requests (toil/lib/ec2.py)
    cred,               \* the cache files and the processes refreshing credentials
    spot                \* wait_spot_requests_active, its consumer and the requests

frontVars == <<nextJobID, currentJobs, newJobsQueue, killQueue, updatedRead, killedRead,
               fpc, killPending, kills, runningCache, runningCacheTS>>
workerVars == <<pc, newJob, waitingJobs, runningJobs, batchJobIDs, killList,
                checkCache, checkTS, updatedLog, killedLog>>
envVars == <<sched, max_jobs>>
pollObs == <<lastCheck, sinceCheck, lastRunning, queryAge, close>>
obsVars == <<pollObs, hist>>
cwlVars == <<wf, tr, ex, call>>
libVars == <<cred, spot>>
vars == <<frontVars, workerVars, envVars, obsVars, retry, cwlVars, libVars>>

\* self.updatedJobsQueue: what was put and not yet taken.
updatedJobsQueue == SubSeq(updatedLog, updatedRead + 1, Len(updatedLog))

\* self.killedJobsQueue: what was put and not yet taken.
killedJobsQueue == SubSeq(killedLog, killedRead + 1, Len(killedLog))

\* ------------------------------------------------------------------- Init
\* The state after AbstractGridEngineBatchSystem.__init__ and Worker.__init__.
DispatcherInit ==
    /\ nextJobID = 1
    /\ currentJobs = {}
    /\ newJobsQueue = <<>>
    /\ killQueue = <<>>
    /\ updatedLog = <<>>
    /\ updatedRead = 0
    /\ killedLog = <<>>
    /\ killedRead = 0
    /\ fpc = "idle"
    /\ killPending = {}
    /\ kills = 0
    /\ runningCache = {}
    /\ runningCacheTS = None
    /\ pc = "step"
    /\ newJob = None
    /\ waitingJobs = <<>>
    /\ runningJobs = {}
    /\ batchJobIDs = <<>>
    /\ killList = <<>>
    /\ checkCache = None
    /\ checkTS = None
    /\ sched = <<>>
    /\ max_jobs \in 1..MaxMaxJobs
    /\ lastCheck = None
    /\ sinceCheck = None
    /\ lastRunning = None
    /\ queryAge = None
    /\ close = FALSE
    /\ hist = [appended |-> <<>>, popped |-> <<>>, killCalled |-> {}, killedQueued |-> {},
               confirmed |-> {}, failed |-> None]

\* No workflow is being translated and no function of cwltoil.py is called.
CwlIdle == wf = None /\ tr = None /\ ex = None /\ call = None

LibIdle == cred = None /\ spot = None

Init == DispatcherInit /\ retry = None /\ CwlIdle /\ LibIdle

\* Time is kept as the seconds since each timestamp was taken, counted up to
\* statePollingWait: the code only compares datetime.now() - timestamp with
\* statePollingWait.  A timestamp that is still None has age None.
Older(age, d) ==
    IF age = None THEN None
    ELSE <<IF age[1] + d > statePollingWait THEN statePollingWait ELSE age[1] + d>>

\* (datetime.now() - timestamp).total_seconds() < statePollingWait, for a
\* timestamp that is set.
Within(age) == age # None /\ age[1] < statePollingWait

\* The threads meet only through the queues, and _runStep takes what it reads
\* from them (newJobsQueue, then killQueue) before it does anything else; so
\* the steps of the front-end, of the scheduler and of the clock are taken
\* between two _runSteps, or while killJobs waits, and not in the middle of one.
AtYield == pc \in {"step", "killwait", "done", "crashed"}

\* ------------------------------------------------------------- front-end
\* issueBatchJob (the job is not a local one); at most `jobs` jobs are issued.
IssueBatchJob(jobs) ==
    /\ AtYield
    /\ fpc = "idle"
    /\ nextJobID <= jobs
    /\ currentJobs' = currentJobs \cup {nextJobID}
    /\ newJobsQueue' = Append(newJobsQueue, JobTuple(nextJobID))
    /\ nextJobID' = nextJobID + 1
    /\ UNCHANGED <<killQueue, updatedRead, killedRead, fpc, killPending, kills,
                   runningCache, runningCacheTS>>
    /\ UNCHANGED <<workerVars, envVars, obsVars, retry, cwlVars, libVars>>

\* killBatchJobs(jobIDs), up to its wait on killedJobsQueue: the ids go on
\* killQueue in the iteration order of the set.  At most `calls` calls are
\* made, each for at most `size` ids up to `jobs`.
KillBatchJobs(jobs, calls, size) ==
    /\ AtYield
    /\ fpc = "idle"
    /\ kills < calls
    /\ \E S \in SUBSET (1..jobs) :
         /\ S # {}
         /\ Cardinality(S) <= size
         /\ \E order \in Orderings(S) : killQueue' = killQueue \o order
         /\ killPending' = S
    /\ fpc' = "killing"
    /\ kills' = kills + 1
    /\ UNCHANGED <<nextJobID, currentJobs, newJobsQueue, updatedRead, killedRead,
                   runningCache, runningCacheTS>>
    /\ UNCHANGED <<workerVars, envVars, obsVars, retry, cwlVars, libVars>>

\* killBatchJobs, one turn of its loop: killedJobsQueue.get() and the
\* bookkeeping for the id it returns (removing an id that is not in jobIDs
\* raises KeyError).
KillBatchJobsGet ==
    /\ AtYield
    /\ fpc = "killing"
    /\ killedJobsQueue # <<>>
    /\ LET killedJobId == Head(killedJobsQueue) IN
         /\ killedRead' = killedRead + 1
         /\ IF killedJobId \notin killPending
            THEN /\ fpc' = "crashed"
                 /\ UNCHANGED <<killPending, runningCache, currentJobs>>
            ELSE /\ killPending' = killPending \ {killedJobId}
                 /\ runningCache' = runningCache \ {killedJobId}
                 /\ currentJobs' = currentJobs \ {killedJobId}
                 /\ fpc' = IF killPending' = {} THEN "idle" ELSE "killing"
    /\ UNCHANGED <<nextJobID, newJobsQueue, killQueue, updatedRead, kills, runningCacheTS>>
    /\ UNCHANGED <<workerVars, envVars, obsVars, retry, cwlVars, libVars>>

\* getUpdatedBatchJob when updatedJobsQueue has an item (currentJobs.remove
\* raises KeyError for an id that is not there).
GetUpdatedBatchJob ==
    /\ AtYield
    /\ fpc = "idle"
    /\ updatedJobsQueue # <<>>
    /\ LET item == Head(updatedJobsQueue) IN
         /\ updatedRead' = updatedRead + 1
         /\ IF item.jobID \in currentJobs
            THEN currentJobs' = currentJobs \ {item.jobID} /\ fpc' = fpc
            ELSE currentJobs' = currentJobs /\ fpc' = "crashed"
    /\ UNCHANGED <<nextJobID, newJobsQueue, killQueue, killedRead, killPending, kills,
                   runningCache, runningCacheTS>>
    /\ UNCHANGED <<workerVars, envVars, obsVars, retry, cwlVars, libVars>>

\* Worker.getRunningJobIDs: the running jobs the scheduler still knows as
\* running.
getRunningJobIDs ==
    {j \in runningJobs : j \in DOMAIN batchJobIDs /\ sched[batchJobIDs[j][1]] = None}

\* A getRunningBatchJobIDs that never answers from its cache.
RunningNeverCached == FALSE

\* getRunningBatchJobIDs' test for answering from the cache.
RunningIsCached == Within(runningCacheTS)

\* getRunningBatchJobIDs (no local jobs).
GetRunningBatchJobIDs ==
    /\ AtYield
    /\ fpc = "idle"
    /\ IF RunningIsCached
       THEN /\ lastRunning' = <<FALSE, TRUE, runningCacheTS>>
            /\ UNCHANGED <<runningCache, runningCacheTS, fpc, queryAge, close>>
       ELSE /\ queryAge' = <<0>>
            /\ close' = (close \/ Within(queryAge))
            /\ \E end \in RetryEnds :
                 IF end = "returned"
                 THEN /\ runningCache' = getRunningJobIDs
                      /\ runningCacheTS' = <<0>>
                      /\ lastRunning' = <<TRUE, getRunningJobIDs = runningCache,
                                        runningCacheTS>>
                      /\ fpc' = fpc
                 ELSE /\ fpc' = "crashed"
                      /\ UNCHANGED <<runningCache, runningCacheTS, lastRunning>>
    /\ UNCHANGED <<nextJobID, currentJobs, newJobsQueue, killQueue, updatedRead,
                   killedRead, killPending, kills>>
    /\ UNCHANGED <<workerVars, envVars, lastCheck, sinceCheck, hist, retry, cwlVars, libVars>>

\* shutdown, up to the join: the sentinel goes on newJobsQueue.
Shutdown ==
    /\ AtYield
    /\ fpc = "idle"
    /\ newJobsQueue' = Append(newJobsQueue, None)
    /\ fpc' = "joining"
    /\ UNCHANGED <<nextJobID, currentJobs, killQueue, updatedRead, killedRead,
                   killPending, kills, runningCache, runningCacheTS>>
    /\ UNCHANGED <<workerVars, envVars, obsVars, retry, cwlVars, libVars>>

\* shutdown: worker.join() returns once the worker thread has ended.
Join ==
    /\ fpc = "joining"
    /\ pc \in {"done", "crashed"}
    /\ fpc' = "stopped"
    /\ UNCHANGED <<nextJobID, currentJobs, newJobsQueue, killQueue, updatedRead,
                   killedRead, killPending, kills, runningCache, runningCacheTS>>
    /\ UNCHANGED <<workerVars, envVars, obsVars, retry, cwlVars, libVars>>

\* ------------------------------------------------------------ worker thread
\* Python's `t == jobID` for an entry t of waitingJobs, a JobTuple, and a
\* job id, an int: a tuple never equals an int.
JobTupleEq(t, jobID) == FALSE

\* `jobID in self.waitingJobs`
InWaitingJobs(waiting, jobID) == \E i \in 1..Len(waiting) : JobTupleEq(waiting[i], jobID)

\* `self.waitingJobs.remove(jobID)` where the list has an equal entry.
WaitingRemove(waiting, jobID) ==
    RemoveAt(waiting, CHOOSE i \in 1..Len(waiting) :
                        /\ JobTupleEq(waiting[i], jobID)
                        /\ \A k \in 1..(i - 1) : ~JobTupleEq(waiting[k], jobID))

\* The job ids of the JobTuples of a list.
IDsOf(waiting) == {waiting[i][1] : i \in 1..Len(waiting)}

\* getBatchSystemID(jobID) for a known jobID (task is None).
getBatchSystemID(ids, jobID) == ids[jobID][1]

\* A forgetJob without its `del self.batchJobIDs[jobID]`.
ForgetKeepsID(ids, jobID) == ids

\* forgetJob's effect on batchJobIDs.
Forget(ids, jobID) == [j \in (DOMAIN ids) \ {jobID} |-> ids[j]]

\* UpdatedBatchJobInfo(jobID, exitStatus, exitReason, wallTime=None)
UpdatedBatchJobInfo(jobID, exitStatus, exitReason) ==
    [jobID |-> jobID, exitStatus |-> exitStatus, exitReason |-> exitReason]

\* _handle_job_status: the update it puts on updatedJobsQueue (if any),
\* whether it forgets the job, and the activity it returns.
\* A _handle_job_status that does not call forgetJob.
handle_job_status_keep(job_id, status, activity) ==
    IF status # None
    THEN [put |-> <<UpdatedBatchJobInfo(job_id, status, None)>>, forget |-> FALSE,
          activity |-> TRUE]
    ELSE [put |-> <<>>, forget |-> FALSE, activity |-> activity]

handle_job_status(job_id, status, activity) ==
    IF status # None
    THEN [put |-> <<UpdatedBatchJobInfo(job_id, status, None)>>, forget |-> TRUE,
          activity |-> TRUE]
    ELSE IF status # None /\ IsReason(status)
    THEN [put |-> <<UpdatedBatchJobInfo(job_id, IntStatus(1), status)>>, forget |-> TRUE,
          activity |-> TRUE]
    ELSE [put |-> <<>>, forget |-> FALSE, activity |-> activity]

\* A _runStep that takes the sentinel for no job and goes on.
AfterGetGoesOn(job) == "kill"

\* _runStep: `if newJob is None: return False` after newJobsQueue.get().
AfterGet(job) == IF job = None THEN "done" ELSE "kill"

\* _runStep, up to its call of killJobs: take a new job if there is one; the
\* sentinel ends the thread.
RunStep ==
    /\ pc = "step"
    /\ IF newJobsQueue # <<>>
       THEN /\ newJob' = Head(newJobsQueue)
            /\ newJobsQueue' = Tail(newJobsQueue)
            /\ pc' = AfterGet(newJob')
       ELSE /\ newJob' = None
            /\ pc' = "kill"
            /\ UNCHANGED newJobsQueue
    /\ UNCHANGED <<nextJobID, currentJobs, killQueue, updatedRead, killedRead, fpc,
                   killPending, kills, runningCache, runningCacheTS>>
    /\ UNCHANGED <<waitingJobs, runningJobs, batchJobIDs, killList, checkCache, checkTS,
                   updatedLog, killedLog>>
    /\ UNCHANGED <<envVars, obsVars, retry, cwlVars, libVars>>

RECURSIVE dirty_job(_, _, _)
RECURSIVE dirty_job_indent(_, _, _)
\* A loop whose killedJobsQueue.put sits inside `if jobID in self.waitingJobs`.
dirty_job_indent(list, i, st) ==
    IF i > Len(list) THEN st
    ELSE LET jobID == list[i] IN
         IF jobID \in runningJobs
         THEN dirty_job_indent(list, i + 1, [st EXCEPT !.kill = Append(@, jobID)])
         ELSE dirty_job_indent(list, i + 1,
                [st EXCEPT !.waiting = IF InWaitingJobs(@, jobID)
                                       THEN WaitingRemove(@, jobID) ELSE @,
                           !.put = IF InWaitingJobs(st.waiting, jobID)
                                   THEN Append(@, jobID) ELSE @])

\* killJobs' loop "Do the dirty job" over the ids from position i of `list`:
\* st.kill collects the ids killJob was called for (they stay in killList),
\* st.put those put on killedJobsQueue at once.
dirty_job(list, i, st) ==
    IF i > Len(list) THEN st
    ELSE LET jobID == list[i] IN
         IF jobID \in runningJobs
         THEN dirty_job(list, i + 1, [st EXCEPT !.kill = Append(@, jobID)])
         ELSE dirty_job(list, i + 1,
                [st EXCEPT !.waiting = IF InWaitingJobs(@, jobID)
                                       THEN WaitingRemove(@, jobID) ELSE @,
                           !.put = Append(@, jobID)])

\* killJobs, up to its wait for the kills to be confirmed.
KillJobs ==
    /\ pc = "kill"
    /\ killQueue' = <<>>
    /\ IF killQueue = <<>>
       THEN /\ pc' = "create"
            /\ UNCHANGED <<waitingJobs, killList, killedLog, hist>>
       ELSE LET st == dirty_job(killQueue, 1,
                                [waiting |-> waitingJobs, kill |-> <<>>, put |-> <<>>])
            IN /\ waitingJobs' = st.waiting
               /\ killedLog' = killedLog \o st.put
               /\ killList' = st.kill
               /\ pc' = IF st.kill = <<>> THEN "create" ELSE "killwait"
               /\ hist' = [hist EXCEPT
                             !.killCalled = @ \cup Range(st.kill),
                             !.killedQueued = @ \cup (Range(st.put) \cap IDsOf(waitingJobs))]
    /\ UNCHANGED <<nextJobID, currentJobs, newJobsQueue, updatedRead, killedRead, fpc,
                   killPending, kills, runningCache, runningCacheTS>>
    /\ UNCHANGED <<newJob, runningJobs, batchJobIDs, checkCache, checkTS, updatedLog>>
    /\ UNCHANGED <<envVars, pollObs, retry, cwlVars, libVars>>

\* A confirm loop that does not look at the exit code.
KillConfirmedAtOnce(status) == TRUE

\* A confirm loop that takes no exit code for the end of the job.
KillNeverConfirmed(status) == FALSE

\* killJobs: with_retries(self.getJobExitCode, batchJobID) is not None
KillConfirmed(status) == status # None

\* One pass of killJobs' loop "Wait to confirm the kill" over the ids from
\* position i of `list`; the getJobExitCode of the failAt-th id raises out of
\* with_retries (failAt = 0: none does).
RECURSIVE confirm_pass(_, _, _, _)
confirm_pass(list, i, failAt, st) ==
    IF i > Len(list) THEN st
    ELSE LET jobID == list[i] IN
         IF jobID \notin DOMAIN st.ids \/ i = failAt
         THEN [st EXCEPT !.raised = <<jobID>>]
         ELSE IF KillConfirmed(sched[getBatchSystemID(st.ids, jobID)])
         THEN confirm_pass(list, i + 1, failAt,
                [st EXCEPT !.put = Append(@, jobID),
                           !.running = @ \ {jobID},
                           !.ids = Forget(@, jobID)])
         ELSE confirm_pass(list, i + 1, failAt, st)

\* One turn of killJobs' loop `while killList`: what the pass does, the ids
\* left in killList and the second sleepSeconds() sleeps when some job is
\* still not confirmed.
kill_turn(failAt) ==
    LET st == confirm_pass(killList, 1, failAt,
                [put |-> <<>>, running |-> runningJobs, ids |-> batchJobIDs,
                 raised |-> None])
        left == Without(killList, Range(st.put))
    IN [st |-> st, left |-> left,
        slept |-> IF st.raised = None /\ left # <<>> THEN 1 ELSE 0]

\* killJobs, one turn of its loop `while killList`.
KillWait(failAt, end) ==
    /\ pc = "killwait"
    /\ (failAt = 0) = (end = "returned")
    /\ LET t == kill_turn(failAt)
       IN /\ killedLog' = killedLog \o t.st.put
          /\ runningJobs' = t.st.running
          /\ batchJobIDs' = t.st.ids
          /\ killList' = t.left
          /\ checkTS' = Older(checkTS, t.slept)
          /\ runningCacheTS' = Older(runningCacheTS, t.slept)
          /\ IF t.st.raised # None
             THEN /\ pc' = "crashed"
                  /\ hist' = [hist EXCEPT !.confirmed = @ \cup Range(t.st.put),
                                          !.failed = <<t.st.raised[1], "getJobExitCode",
                                                       end>>]
             ELSE /\ pc' = IF t.left = <<>> THEN "create" ELSE "killwait"
                  /\ hist' = [hist EXCEPT !.confirmed = @ \cup Range(t.st.put)]
    /\ UNCHANGED <<nextJobID, currentJobs, newJobsQueue, killQueue, updatedRead, killedRead,
                   fpc, killPending, kills, runningCache>>
    /\ UNCHANGED <<newJob, waitingJobs, checkCache, updatedLog>>
    /\ UNCHANGED <<envVars, retry, cwlVars, libVars>>

\* What a turn of killJobs' loop shows of the polling: each turn queries the
\* scheduler.
KillWaitPolls(failAt) ==
    /\ close' = (close \/ Within(queryAge))
    /\ queryAge' = Older(<<0>>, kill_turn(failAt).slept)
    /\ sinceCheck' = Older(sinceCheck, kill_turn(failAt).slept)
    /\ UNCHANGED <<lastCheck, lastRunning>>

\* A createJobs that tests len(self.runningJobs) <= max_jobs.
HasCapacityOffByOne(running) == Cardinality(running) <= max_jobs

\* createJobs: len(self.runningJobs) < int(self.boss.config.max_jobs)
HasCapacity(running) == Cardinality(running) < max_jobs

\* createJobs' loop "Launch jobs as necessary"; the submitJob of the
\* failAt-th job it pops raises out of with_retries (failAt = 0: none does).
RECURSIVE launch(_, _)
launch(st, failAt) ==
    IF Len(st.waiting) > 0 /\ HasCapacity(st.running)
    THEN LET jobID == Head(st.waiting)[1]
             n == Len(st.popped) + 1
             batchJobID == BatchID(Cardinality(DOMAIN st.sched) + 1)
         IN IF n = failAt
            THEN [st EXCEPT !.waiting = Tail(@), !.popped = Append(@, jobID),
                            !.raised = <<jobID>>]
            ELSE launch([st EXCEPT !.waiting = Tail(@),
                                   !.popped = Append(@, jobID),
                                   !.sched = (batchJobID :> None) @@ @,
                                   !.ids = (jobID :> <<batchJobID, None>>) @@ @,
                                   !.running = @ \cup {jobID}], failAt)
    ELSE st

\* A createJobs that appends the new job twice.
WithNewJobTwice(waiting, job) ==
    IF job # None THEN Append(Append(waiting, job), job) ELSE waiting

\* createJobs: `if newJob is not None: self.waitingJobs.append(newJob)`
WithNewJob(waiting, job) == IF job # None THEN Append(waiting, job) ELSE waiting

\* createJobs.
CreateJobs ==
    /\ pc = "create"
    /\ LET waiting == WithNewJob(waitingJobs, newJob)
       IN \E failAt \in 0..Len(waiting), end \in RetryEnds :
            /\ (failAt = 0) = (end = "returned")
            /\ LET st == launch([waiting |-> waiting, running |-> runningJobs,
                                 ids |-> batchJobIDs, sched |-> sched, popped |-> <<>>,
                                 raised |-> None], failAt)
               IN /\ (failAt # 0) => st.raised # None
                  /\ waitingJobs' = st.waiting
                  /\ runningJobs' = st.running
                  /\ batchJobIDs' = st.ids
                  /\ sched' = st.sched
                  /\ pc' = IF st.raised # None THEN "crashed" ELSE "check"
                  /\ hist' = [hist EXCEPT
                        !.appended = IF newJob # None THEN Append(@, newJob[1]) ELSE @,
                        !.popped = @ \o st.popped,
                        !.failed = IF st.raised # None
                                   THEN <<st.raised[1], "submitJob", end>>
                                   ELSE @]
    /\ UNCHANGED <<frontVars, newJob, killList, checkCache, checkTS, updatedLog, killedLog>>
    /\ UNCHANGED <<max_jobs, pollObs, retry, cwlVars, libVars>>

\* checkOnJobs' loop over zip(running_job_list, statuses) from position i;
\* in the one-by-one branch the getJobExitCode of the failAt-th job raises out
\* of with_retries (failAt = 0: none does).
RECURSIVE handle_statuses(_, _, _, _)
handle_statuses(list, i, failAt, st) ==
    IF i > Len(list) THEN st
    ELSE LET running_job_id == list[i] IN
         IF i = failAt
         THEN [st EXCEPT !.raised = <<running_job_id>>, !.queries = @ + 1]
         ELSE LET status == sched[getBatchSystemID(st.ids, running_job_id)]
                  h == handle_job_status(running_job_id, status, st.activity)
              IN handle_statuses(list, i + 1, failAt,
                   [st EXCEPT !.put = @ \o h.put,
                              !.running = IF h.forget THEN @ \ {running_job_id} ELSE @,
                              !.ids = IF h.forget THEN Forget(@, running_job_id) ELSE @,
                              !.activity = h.activity,
                              !.queries = @ + 1])

\* A checkOnJobs that never answers from its cache.
CheckNeverCached == FALSE

\* checkOnJobs' test for answering from the cache.
CheckIsCached == Within(checkTS)

\* checkOnJobs past that test: the statuses come from one
\* coalesce_job_exit_codes call (coalesced) or, when that raises
\* NotImplementedError, from one getJobExitCode call per running job.
check_jobs(running_job_list, coalesced, failAt) ==
    LET st0 == [put |-> <<>>, running |-> runningJobs, ids |-> batchJobIDs,
                activity |-> FALSE, queries |-> 0, raised |-> None]
    IN IF running_job_list = <<>> THEN st0
       ELSE IF ~coalesced THEN handle_statuses(running_job_list, 1, failAt, st0)
       ELSE IF failAt = 1
       THEN [st0 EXCEPT !.raised = <<running_job_list[1]>>, !.queries = 1]
       ELSE [handle_statuses(running_job_list, 1, 0, st0) EXCEPT !.queries = 1]

\* checkOnJobs.
CheckOnJobs(running_job_list, coalesced, failAt, end) ==
    /\ pc = "check"
    /\ IF CheckIsCached
       THEN /\ pc' = "step"
            /\ running_job_list = (CHOOSE order \in Orderings(runningJobs) : TRUE)
            /\ coalesced /\ failAt = 0 /\ end = "returned"
            /\ UNCHANGED <<runningJobs, batchJobIDs, checkCache, checkTS, updatedLog, hist>>
       ELSE /\ running_job_list \in Orderings(runningJobs)
            /\ (failAt = 0) = (end = "returned")
            /\ coalesced => failAt <= 1
            /\ running_job_list = <<>> => coalesced /\ failAt = 0
            /\ LET st == check_jobs(running_job_list, coalesced, failAt)
               IN /\ updatedLog' = updatedLog \o st.put
                  /\ runningJobs' = st.running
                  /\ batchJobIDs' = st.ids
                  /\ IF st.raised # None
                     THEN /\ pc' = "crashed"
                          /\ hist' = [hist EXCEPT !.failed =
                                        <<st.raised[1],
                                          IF coalesced THEN "coalesce_job_exit_codes"
                                          ELSE "getJobExitCode", end>>]
                          /\ UNCHANGED <<checkCache, checkTS>>
                     ELSE /\ pc' = "step"
                          /\ checkCache' = st.activity
                          /\ checkTS' = <<0>>
                          /\ hist' = hist
    /\ UNCHANGED <<frontVars, newJob, waitingJobs, killList, killedLog>>
    /\ UNCHANGED <<envVars, retry, cwlVars, libVars>>

\* What a checkOnJobs call shows of the polling: whether it went to the
\* scheduler, with how many status queries, and what it returned.
CheckOnJobsPolls(running_job_list, coalesced, failAt) ==
    LET st == check_jobs(running_job_list, coalesced, failAt)
        asked == IF CheckIsCached THEN 0 ELSE st.queries
    IN /\ sinceCheck' = <<0>>
       /\ queryAge' = IF asked > 0 THEN <<0>> ELSE queryAge
       /\ close' = (close \/ (asked > 0 /\ Within(queryAge)))
       /\ lastCheck' = IF CheckIsCached THEN <<FALSE, 0, checkCache>>
                       ELSE IF st.raised # None THEN lastCheck
                       ELSE <<TRUE, st.queries, st.activity>>
       /\ UNCHANGED lastRunning

\* ------------------------------------------------- scheduler backend, clock
\* A submitted job comes to its end in the scheduler.
JobEnds ==
    /\ AtYield
    /\ \E b \in DOMAIN sched, status \in FinalStatuses :
         /\ sched[b] = None
         /\ sched' = [sched EXCEPT ![b] = status]
    /\ UNCHANGED <<frontVars, workerVars, max_jobs, obsVars, retry, cwlVars, libVars>>

\* A second passes.
Tick ==
    /\ AtYield
    /\ checkTS' = Older(checkTS, 1)
    /\ runningCacheTS' = Older(runningCacheTS, 1)
    /\ UNCHANGED <<nextJobID, currentJobs, newJobsQueue, killQueue, updatedRead, killedRead,
                   fpc, killPending, kills, runningCache>>
    /\ UNCHANGED <<pc, newJob, waitingJobs, runningJobs, batchJobIDs, killList, checkCache,
                   updatedLog, killedLog>>
    /\ UNCHANGED <<envVars, hist, retry, cwlVars, libVars>>

\* What a second shows of the polling.
TickPolls ==
    /\ sinceCheck' = Older(sinceCheck, 1)
    /\ queryAge' = Older(queryAge, 1)
    /\ UNCHANGED <<lastCheck, lastRunning, close>>

\* ------------------------------------------------------------ specification
\* The worker's actions, the polling not observed.
WorkerNext ==
    \/ RunStep
    \/ KillJobs
    \/ \E failAt \in 0..Len(killList), end \in RetryEnds :
         KillWait(failAt, end) /\ UNCHANGED pollObs
    \/ CreateJobs
    \/ \E running_job_list \in Orderings(runningJobs), coalesced \in BOOLEAN,
          failAt \in 0..Cardinality(runningJobs), end \in RetryEnds :
         CheckOnJobs(running_job_list, coalesced, failAt, end) /\ UNCHANGED pollObs
    \/ JobEnds
    \/ Tick /\ checkTS' # checkTS /\ UNCHANGED pollObs

\* The dispatcher under a front-end that issues jobs and makes one kill.
Next ==
    \/ IssueBatchJob(NJobs)
    \/ KillBatchJobs(NJobs, MaxKills, MaxKillSet)
    \/ KillBatchJobsGet
    \/ GetUpdatedBatchJob
    \/ WorkerNext

Spec == Init /\ [][Next]_vars

\* The dispatcher under a front-end that kills more than it issues.
KillNext ==
    \/ IssueBatchJob(KillJobsN)
    \/ KillBatchJobs(KillJobsN, KillCalls, KillSet)
    \/ KillBatchJobsGet
    \/ GetUpdatedBatchJob
    \/ WorkerNext

KillSpec == Init /\ [][KillNext]_vars

\* The dispatcher with its polling observed, under all the calls of the
\* front-end.
PollNext ==
    \/ IssueBatchJob(PollJobs)
    \/ KillBatchJobs(PollJobs, PollKills, MaxKillSet)
    \/ KillBatchJobsGet
    \/ GetUpdatedBatchJob
    \/ GetRunningBatchJobIDs
    \/ Shutdown
    \/ Join
    \/ RunStep
    \/ KillJobs
    \/ \E failAt \in 0..Len(killList), end \in RetryEnds :
         KillWait(failAt, end) /\ KillWaitPolls(failAt)
    \/ CreateJobs
    \/ \E running_job_list \in Orderings(runningJobs), coalesced \in BOOLEAN,
          failAt \in 0..Cardinality(runningJobs), end \in RetryEnds :
         CheckOnJobs(running_job_list, coalesced, failAt, end)
           /\ CheckOnJobsPolls(running_job_list, coalesced, failAt)
    \/ JobEnds
    \/ Tick /\ TickPolls /\ <<checkTS, runningCacheTS, sinceCheck, queryAge>>'
                              # <<checkTS, runningCacheTS, sinceCheck, queryAge>>

PollSpec == Init /\ [][PollNext]_vars

\* The worker thread's own steps, the polling not observed.
WorkerStep ==
    \/ RunStep
    \/ KillJobs
    \/ \E failAt \in 0..Len(killList), end \in RetryEnds :
         KillWait(failAt, end) /\ UNCHANGED pollObs
    \/ CreateJobs
    \/ \E running_job_list \in Orderings(runningJobs), coalesced \in BOOLEAN,
          failAt \in 0..Cardinality(runningJobs), end \in RetryEnds :
         CheckOnJobs(running_job_list, coalesced, failAt, end) /\ UNCHANGED pollObs

\* The scheduler ends a job while killJobs waits for its kills.
KilledJobEnds == JobEnds /\ pc = "killwait"

\* The dispatcher up to and through shutdown.  The worker thread keeps
\* running while it has a step to take, worker.join() returns once the thread
\* has ended, and the scheduler ends the jobs it was told to kill.
ShutdownNext ==
    \/ IssueBatchJob(ShutdownJobs)
    \/ KillBatchJobs(ShutdownJobs, PollKills, MaxKillSet)
    \/ KillBatchJobsGet
    \/ GetUpdatedBatchJob
    \/ Shutdown
    \/ Join
    \/ WorkerNext

ShutdownSpec ==
    /\ Init
    /\ [][ShutdownNext]_vars
    /\ WF_vars(WorkerStep)
    /\ WF_vars(Join)
    /\ WF_vars(KilledJobEnds)

\* The dispatcher under kills, with the threads kept going: the worker thread
\* takes its next step while it has one, the scheduler ends the jobs it was
\* told to kill, and killBatchJobs, blocked in killedJobsQueue.get(), goes on
\* whenever the queue has an id for it.  Nothing makes a call of the worker
\* raise: the thread may end that way, and it may not.  Time passes in the
\* sleeps of killJobs.
KillLiveNext ==
    \/ IssueBatchJob(ShutdownJobs)
    \/ KillBatchJobs(ShutdownJobs, PollKills, MaxKillSet)
    \/ KillBatchJobsGet
    \/ GetUpdatedBatchJob
    \/ GetRunningBatchJobIDs
    \/ WorkerStep
    \/ JobEnds

KillLiveSpec ==
    /\ Init
    /\ [][KillLiveNext]_vars
    /\ WF_vars(WorkerStep /\ pc' # "crashed")
    /\ WF_vars(KilledJobEnds)
    /\ SF_vars(KillBatchJobsGet)

\* with_retries on its own: an operation whose calls end as the script
\* retry.outs says is handed to with_retries once.
RetryInit ==
    /\ DispatcherInit
    /\ \E outs \in Scripts(MaxOutcomes) :
         /\ Len(outs) = MaxOutcomes
         /\ retry = [outs |-> outs, result |-> None]
    /\ CwlIdle
    /\ LibIdle

WithRetries ==
    /\ retry.result = None
    /\ retry' = [retry EXCEPT !.result = with_retries(retry.outs)]
    /\ UNCHANGED <<frontVars, workerVars, envVars, obsVars, cwlVars, libVars>>

RetryNext == WithRetries

RetrySpec == RetryInit /\ [][RetryNext]_vars

\* ------------------------------------------------ CWL workflow translator
\* A parameter that may be a source is the workflow's input (0) or the output
\* of the step with id i (i).  A step is [id, kind, sources]: its id, what
\* makeJob or the scatter branch makes of it ("job": CWLJob, "wrapper":
\* CWLJobWrapper, "scatter": CWLScatter with a CWLGather, "workflow":
\* CWLWorkflow with a ResolveIndirect) and the entries of its inputs' source
\* lists.  The steps of a workflow are in list order; step i has id i.
WorkflowInput == 0

StepKinds == {"job", "wrapper", "scatter", "workflow"}

\* The workflows of n steps of the given kinds.  The output names one
\* parameter as its outputSource, and has a "source" key or not.
Workflows(n, kinds) ==
    {[steps |-> steps, out |-> out] :
        steps \in {st \in [1..n -> [id : 1..n, kind : kinds,
                                    sources : {S \in SUBSET (0..n) :
                                                  Cardinality(S) <= MaxSources}]] :
                      \A i \in 1..n : st[i].id = i},
        out \in [hasSource : BOOLEAN, source : 0..n]}

\* The job standing for workflow inputs, SelfJob(self, cwljob): its addChild
\* and hasChild are those of the workflow's own job.
SelfJob == <<"self", 0>>

\* The (wfjob, followOn) pair made for a step.
WfJob(step) == <<"wfjob", step.id>>

FollowOnOf(step) ==
    IF step.kind \in {"scatter", "workflow"} THEN <<"followOn", step.id>> ELSE WfJob(step)

\* A translator that takes no producer for a wrapper or a gather.
IsNeverWrapperOrGather(job) == FALSE

\* isinstance(promises[s], (CWLJobWrapper, CWLGather))
IsWrapperOrGather(job) ==
    \/ job[1] = "wfjob" /\ wf.steps[job[2]].kind = "wrapper"
    \/ job[1] = "followOn" /\ wf.steps[job[2]].kind = "scatter"

\* A translator that takes every step for one without a job.
HasJobNever(step, jobs) == FALSE

\* `step_id not in jobs`, negated.
HasJob(step, jobs) == step.id \in DOMAIN jobs

\* stepinputs_fufilled: every entry of every input's source list is in promises.
StepInputsFulfilled(step, promises) == \A s \in step.sources : s \in DOMAIN promises

\* A translator whose pass never finds a step's source missing.
SourceNeverMissing(step, promises) == FALSE

\* The test after a step's turn that sets all_outputs_fulfilled = False.
SourceMissing(step, promises) == \E s \in step.sources : s \notin DOMAIN promises

\* The edges added for a newly made wfjob: a follow-on of every producer that
\* is a wrapper or a gather, a child of every other producer, and a child of
\* the workflow's job when that connects it to nothing.
Connect(step, promises) ==
    LET fo == {<<promises[s], WfJob(step)>> :
                  s \in {x \in step.sources : IsWrapperOrGather(promises[x])}}
        ch == {<<promises[s], WfJob(step)>> :
                  s \in {x \in step.sources : ~IsWrapperOrGather(promises[x])}}
        connected == fo \cup ch # {}
    IN [followOns |-> fo \cup (IF FollowOnOf(step) # WfJob(step)
                               THEN {<<WfJob(step), FollowOnOf(step)>>} ELSE {}),
        children |-> IF connected THEN ch ELSE {<<SelfJob, WfJob(step)>>}]

\* The state a workflow job starts in: CWLWorkflow.run has been entered.
TranslatorInit(workflows) ==
    /\ wf \in workflows
    /\ tr = [pc |-> "start", idx |-> 0, fulfilled |-> FALSE, passes |-> 0,
             promises |-> <<>>, jobs |-> <<>>, made |-> [i \in DOMAIN wf.steps |-> 0],
             children |-> {}, followOns |-> {}]
    /\ ex = [started |-> {SelfJob}, finished |-> {}, children |-> {}]

\* CWLWorkflow.run up to its loop: a workflow whose condition is false returns
\* the skipped outputs; otherwise every input gets SelfJob as its promise.
TranslatorStart ==
    /\ tr # None
    /\ tr.pc = "start"
    /\ \E is_false \in BOOLEAN :
         IF is_false
         THEN tr' = [tr EXCEPT !.pc = "skipped"]
         ELSE tr' = [tr EXCEPT !.pc = "pass", !.idx = 1, !.fulfilled = TRUE, !.passes = 1,
                               !.promises = (WorkflowInput :> SelfJob)]
    /\ UNCHANGED <<frontVars, workerVars, envVars, obsVars, retry, libVars, wf, ex, call>>

\* One turn of `for step in self.cwlwf.steps`.
VisitStep ==
    /\ tr # None
    /\ tr.pc = "pass"
    /\ tr.idx <= Len(wf.steps)
    /\ LET step == wf.steps[tr.idx]
           make == ~HasJob(step, tr.jobs) /\ StepInputsFulfilled(step, tr.promises)
           edges == Connect(step, tr.promises)
           promises == IF make THEN (step.id :> FollowOnOf(step)) @@ tr.promises
                       ELSE tr.promises
       IN tr' = [tr EXCEPT
                   !.idx = @ + 1,
                   !.jobs = IF make THEN (step.id :> FollowOnOf(step)) @@ @ ELSE @,
                   !.made = IF make THEN [@ EXCEPT ![step.id] = @ + 1] ELSE @,
                   !.children = IF make THEN @ \cup edges.children ELSE @,
                   !.followOns = IF make THEN @ \cup edges.followOns ELSE @,
                   !.promises = promises,
                   !.fulfilled = IF SourceMissing(step, promises) THEN FALSE ELSE @]
    /\ UNCHANGED <<frontVars, workerVars, envVars, obsVars, retry, libVars, wf, ex, call>>

\* The end of a pass: the check of the workflow's outputs, and the loop's test.
\* A loop that has not ended after MaxPasses passes is cut off.
EndPass ==
    /\ tr # None
    /\ tr.pc = "pass"
    /\ tr.idx > Len(wf.steps)
    /\ LET fulfilled == IF wf.out.hasSource /\ wf.out.source \notin DOMAIN tr.promises
                        THEN FALSE ELSE tr.fulfilled
       IN IF fulfilled
          THEN tr' = [tr EXCEPT !.pc = "returned", !.fulfilled = TRUE]
          ELSE IF tr.passes < MaxPasses
          THEN tr' = [tr EXCEPT !.idx = 1, !.fulfilled = TRUE, !.passes = @ + 1]
          ELSE tr' = [tr EXCEPT !.pc = "cut", !.fulfilled = FALSE]
    /\ UNCHANGED <<frontVars, workerVars, envVars, obsVars, retry, libVars, wf, ex, call>>

TranslateInit == DispatcherInit /\ retry = None /\ call = None /\ LibIdle
                 /\ TranslatorInit(Workflows(NSteps, {"job", "wrapper"}))

TranslateNext == TranslatorStart \/ VisitStep \/ EndPass

\* The translator on every workflow of NSteps steps.
TranslateSpec == TranslateInit /\ [][TranslateNext]_vars

\* ------------------------------------------------ running the job graph
\* The jobs a job's own run adds as its children: CWLJobWrapper.run adds the
\* real CWLJob, CWLScatter.run adds the jobs of the scattered step (one
\* stands for them), and a nested CWLWorkflow.run adds its own steps' jobs
\* (one stands for them).
RunAddsChildren(job) ==
    IF job[1] # "wfjob" THEN {}
    ELSE LET kind == wf.steps[job[2]].kind IN
         IF kind = "wrapper" THEN {<<job, <<"real", job[2]>>>>}
         ELSE IF kind = "scatter" THEN {<<job, <<"sub", job[2]>>>>}
         ELSE IF kind = "workflow" THEN {<<job, <<"inner", job[2]>>>>}
         ELSE {}

\* The edges of the job graph so far.
ChildEdges == tr.children \cup ex.children

FollowOnEdges == tr.followOns

\* The jobs whose run has returned; the workflow's own job is one of them when
\* the translator has returned.
Finished == ex.finished \cup (IF tr.pc = "returned" THEN {SelfJob} ELSE {})

\* A job and all its successors have finished.
RECURSIVE Done(_)
Done(job) ==
    /\ job \in Finished
    /\ \A edge \in ChildEdges \cup FollowOnEdges : edge[1] = job => Done(edge[2])

\* The scheduler may start a job when the run of every job it is a child of
\* has returned, and every job it is a follow-on of has finished with all its
\* children and their successors.
Ready(job) ==
    /\ \A edge \in ChildEdges : edge[2] = job => edge[1] \in Finished
    /\ \A edge \in FollowOnEdges :
         edge[2] = job => /\ edge[1] \in Finished
                          /\ \A c \in ChildEdges : c[1] = edge[1] => Done(c[2])

\* The scheduler starts a job of the graph.
StartJob ==
    /\ tr # None
    /\ tr.pc = "returned"
    /\ \E edge \in ChildEdges \cup FollowOnEdges :
         /\ edge[2] \notin ex.started
         /\ Ready(edge[2])
         /\ ex' = [ex EXCEPT !.started = @ \cup {edge[2]}]
    /\ UNCHANGED <<frontVars, workerVars, envVars, obsVars, retry, libVars, wf, tr, call>>

\* A started job's run returns: its result is recorded and the children it
\* added join the graph.
FinishJob ==
    /\ tr # None
    /\ tr.pc = "returned"
    /\ \E job \in ex.started \ (ex.finished \cup {SelfJob}) :
         ex' = [ex EXCEPT !.finished = @ \cup {job},
                          !.children = @ \cup RunAddsChildren(job)]
    /\ UNCHANGED <<frontVars, workerVars, envVars, obsVars, retry, libVars, wf, tr, call>>

JobGraphInit == DispatcherInit /\ retry = None /\ call = None /\ LibIdle
                /\ TranslatorInit(Workflows(GraphSteps, StepKinds))

JobGraphNext == TranslatorStart \/ VisitStep \/ EndPass \/ StartJob \/ FinishJob

\* The translator on every workflow of GraphSteps steps, and the scheduler
\* running the job graph it returns.
JobGraphSpec == JobGraphInit /\ [][JobGraphNext]_vars

\* ------------------------------------------------ path mapper, staging
\* A path is a sequence of parts: a basename "x" is <<"x">>, and f"{tgt}_{i}"
\* is the path with the part i appended, so the basename "x_2" is <<"x", 2>>.
\* All files are visited under one stagedir.
Basenames == {<<"x">>, <<"y">>, <<"x", 2>>}

Suffixed(tgt, i) == Append(tgt, i)

\* A File object: its location, its basename, and whether it is a literal
\* ("contents" with a "_:" location), which the mapper is to create.
Files == [location : 1..MaxFiles, basename : Basenames, literal : BOOLEAN]

\* The first of tgt_2, tgt_3, ... that is not in targets: the `while new_tgt
\* in targets` loop.
RECURSIVE NewTarget(_, _, _)
NewTarget(tgt, targets, i) ==
    IF Suffixed(tgt, i) \in Range(targets) THEN NewTarget(tgt, targets, i + 1)
    ELSE Suffixed(tgt, i)

\* The `targets` dict after the loop over the first n entries of the pathmap,
\* in insertion order: one new name for every entry whose target is tgt.
RECURSIVE ConflictTargets(_, _, _)
ConflictTargets(pathmap, tgt, n) ==
    IF n = 0 THEN <<>>
    ELSE LET targets == ConflictTargets(pathmap, tgt, n - 1) IN
         IF pathmap[n].target = tgt THEN Append(targets, NewTarget(tgt, targets, 2))
         ELSE targets

\* The target the File branch of ToilPathMapper.visit writes for a file: the
\* last of the conflict names, or tgt when there is none.  A literal file gets
\* tgt as it is.
MappedTarget(pathmap, file) ==
    LET tgt == file.basename
        targets == ConflictTargets(pathmap, tgt, Len(pathmap))
    IN IF file.literal \/ targets = <<>> THEN tgt ELSE targets[Len(targets)]

\* ToilPathMapper.visit on a File object; the pathmap keeps insertion order.
\* A location that is mapped already is left alone.
PathMapperVisit ==
    /\ call # None
    /\ call.f = "visit"
    /\ Len(call.pathmap) < MaxFiles
    /\ \E file \in Files :
         IF \E n \in DOMAIN call.pathmap : call.pathmap[n].path = file.location
         THEN call' = [call EXCEPT !.visits = @ + 1]
         ELSE call' = [call EXCEPT
                         !.visits = @ + 1,
                         !.pathmap = Append(@, [path |-> file.location,
                                                basename |-> file.basename,
                                                literal |-> file.literal,
                                                target |-> MappedTarget(@, file)])]
    /\ call'.visits <= MaxFiles + 1
    /\ UNCHANGED <<frontVars, workerVars, envVars, obsVars, retry, libVars, wf, tr, ex>>

\* The entries of a listing: with a basename or without one, and, for a
\* subdirectory, with the basenames of its own listing.
Children == [hasBasename : BOOLEAN, basename : {"x", "y"},
             listing : {<<>>, <<"x", "x">>}]

\* A Directory object; `listing` may be absent.
Directories ==
    {[hasListing |-> h, listing |-> l] :
        h \in BOOLEAN,
        l \in UNION {[1..n -> Children] : n \in 0..MaxListing}}

\* An ensure_no_collisions that forgets the names it has seen.
seen_names_forgotten(seen, child) == seen

\* seen_names.add(wanted_name), for a child that has a basename.
seen_names_add(seen, child) ==
    IF child.hasBasename THEN seen \cup {child.basename} ELSE seen

\* The loop of ensure_no_collisions from child n on: "raise" at the first
\* child whose basename has been seen, "return" at the end of the listing.
RECURSIVE no_collisions_from(_, _, _)
no_collisions_from(listing, n, seen) ==
    IF n > Len(listing) THEN "return"
    ELSE IF listing[n].hasBasename /\ listing[n].basename \in seen
    THEN "raise File staging conflict"
    ELSE no_collisions_from(listing, n + 1, seen_names_add(seen, listing[n]))

ensure_no_collisions(directory) ==
    no_collisions_from(IF directory.hasListing THEN directory.listing ELSE <<>>, 1, {})

EnsureNoCollisions ==
    /\ call # None
    /\ call.f = "ensure_no_collisions"
    /\ call.result = None
    /\ call' = [call EXCEPT !.result = <<ensure_no_collisions(call.directory)>>]
    /\ UNCHANGED <<frontVars, workerVars, envVars, obsVars, retry, libVars, wf, tr, ex>>

\* ------------------------------------------------ directory URIs
\* A directory contents dict is the sequence of its (name, item) pairs in
\* insertion order, names distinct; an item is a file's URI, <<"f", uri>>, or
\* a subdirectory's dict, <<"d", dict>>.
Names == {"", "a", "b"}

FileItems == {<<"f", uri>> : uri \in {"u", "v"}}

DictsOver(items, maxLen) ==
    {c \in UNION {[1..n -> Names \X items] : n \in 0..maxLen} :
        \A m, n \in DOMAIN c : m # n => c[m][1] # c[n][1]}

\* The dicts of the calls: subdirectories hold at most one file.
DirectoryContents ==
    DictsOver(FileItems \cup {<<"d", c>> : c \in DictsOver(FileItems, 1)}, MaxContents)

\* check_directory_dict_invariants: TRUE when it raises.
RECURSIVE HasNamelessEntry(_)
HasNamelessEntry(contents) ==
    \E n \in DOMAIN contents :
        \/ contents[n][1] = ""
        \/ contents[n][2][1] = "d" /\ HasNamelessEntry(contents[n][2][2])

\* json.dumps: the text as a sequence of tokens, the pairs in the dict's
\* insertion order.
RECURSIVE json_dumps(_)
RECURSIVE json_dumps_from(_, _)
json_dumps_from(contents, n) ==
    IF n > Len(contents) THEN <<>>
    ELSE (IF n > 1 THEN <<",">> ELSE <<>>)
         \o <<contents[n][1], ":">>
         \o (IF contents[n][2][1] = "f" THEN <<contents[n][2][2]>>
             ELSE json_dumps(contents[n][2][2]))
         \o json_dumps_from(contents, n + 1)

json_dumps(contents) == <<"{">> \o json_dumps_from(contents, 1) \o <<"}">>

\* json.loads of an object that starts at text[pos]: the dict, and the
\* position after its closing brace.
RECURSIVE json_loads_at(_, _)
RECURSIVE json_loads_pairs(_, _, _)
json_loads_pairs(text, pos, acc) ==
    LET item == IF text[pos + 2] = "{"
                THEN LET sub == json_loads_at(text, pos + 2)
                     IN [val |-> <<"d", sub.val>>, next |-> sub.next]
                ELSE [val |-> <<"f", text[pos + 2]>>, next |-> pos + 3]
        pairs == Append(acc, <<text[pos], item.val>>)
    IN IF text[item.next] = "," THEN json_loads_pairs(text, item.next + 1, pairs)
       ELSE [val |-> pairs, next |-> item.next + 1]

json_loads_at(text, pos) ==
    IF text[pos + 1] = "}" THEN [val |-> <<>>, next |-> pos + 2]
    ELSE json_loads_pairs(text, pos + 1, <<>>)

json_loads(text) == json_loads_at(text, 1).val

\* base64.urlsafe_b64encode: one symbol group for every three tokens of the
\* text, the last group short where the text runs out (its padding).
urlsafe_b64encode(text) ==
    [g \in 1..((Len(text) + 2) \div 3) |->
        <<"b64", SubSeq(text, 3 * g - 2, IF 3 * g < Len(text) THEN 3 * g ELSE Len(text))>>]

RECURSIVE urlsafe_b64decode(_)
urlsafe_b64decode(data) ==
    IF data = <<>> THEN <<>> ELSE data[1][2] \o urlsafe_b64decode(Tail(data))

\* encode_directory: the URI, or the error of the invariant check.
encode_directory(contents) ==
    IF HasNamelessEntry(contents) THEN <<"raise", "RuntimeError">>
    ELSE <<"return", <<<<"toildir:">>>> \o urlsafe_b64encode(json_dumps(contents))>>

\* The index of the first "/" of a path, 0 when it has none.
RECURSIVE FirstSlash(_, _)
FirstSlash(path, n) ==
    IF n > Len(path) THEN 0
    ELSE IF path[n] = <<"/">> THEN n
    ELSE FirstSlash(path, n + 1)

\* decode_directory: the contents, the rest of the path and the key.
decode_directory(dir_path) ==
    IF dir_path = <<>> \/ dir_path[1] # <<"toildir:">> THEN <<"raise", "RuntimeError">>
    ELSE LET rest == Tail(dir_path)
             slash == FirstSlash(rest, 1)
             dir_data == IF slash = 0 THEN rest ELSE SubSeq(rest, 1, slash - 1)
             subpath == IF slash = 0 THEN None ELSE SubSeq(rest, slash + 1, Len(rest))
             contents == json_loads(urlsafe_b64decode(dir_data))
         IN IF HasNamelessEntry(contents) THEN <<"raise", "RuntimeError">>
            ELSE IF slash = 0 \/ subpath = <<<<"/">>>>
            THEN <<"return", contents, None, dir_data>>
            ELSE <<"return", contents, subpath, dir_data>>

\* The paths below a directory that a URI is extended with.
SubPaths == {None, <<<<"/">>, <<"x">>>>, <<<<"/">>, <<"/">>>>}

\* encode_directory on the two dicts of the call.
EncodeDirectory ==
    /\ call # None
    /\ call.f = "directory"
    /\ call.uris = None
    /\ call' = [call EXCEPT !.uris = <<encode_directory(call.contents[1]),
                                       encode_directory(call.contents[2])>>]
    /\ UNCHANGED <<frontVars, workerVars, envVars, obsVars, retry, libVars, wf, tr, ex>>

\* decode_directory on the first URI, as it is or with a path below it.
DecodeDirectory ==
    /\ call # None
    /\ call.f = "directory"
    /\ call.uris # None
    /\ call.uris[1][1] = "return"
    /\ call.decoded = None
    /\ \E sub \in SubPaths :
         call' = [call EXCEPT !.sub = sub,
                              !.decoded = decode_directory(call.uris[1][2] \o sub)]
    /\ UNCHANGED <<frontVars, workerVars, envVars, obsVars, retry, libVars, wf, tr, ex>>

\* ------------------------------------------------ pickValue and linkMerge
\* A CWL value is null <<"null">>, the SkipNull sentinel <<"skip">>, a plain
\* value <<"v", x>>, a list <<"l", values>> or a dictionary <<"d", pairs>> of
\* (key, value) pairs.
\* The entries of a list of source values: null, the sentinel, or a value.
SourceEntries == {<<"null">>, <<"skip">>, <<"v", "a">>, <<"v", "b">>}

\* What pick_value is handed: a list, a lone SkipNull, or another value.
PickInputs ==
    {<<"l", l>> : l \in UNION {[1..n -> SourceEntries] : n \in 0..MaxValues}}
    \cup {<<"skip">>, <<"v", "a">>}

\* The input's pickValue, "absent" when it has none.
PickValueTypes == {"absent", "first_non_null", "the_only_non_null", "all_non_null", "any"}

\* A filter that keeps the SkipNull sentinels.
skip_null_kept(v) == v[1] # "null"

\* `not isinstance(v, SkipNull) and v is not None`
not_skip_not_null(v) == v[1] # "skip" /\ v[1] # "null"

\* ResolveSource.pick_value
pick_value(pick_value_type, values) ==
    IF pick_value_type = "absent" THEN <<"return", values>>
    ELSE IF values[1] = "skip" THEN <<"return", <<"null">>>>
    ELSE IF values[1] # "l" THEN <<"return", values>>
    ELSE LET result == SelectSeq(values[2], not_skip_not_null) IN
         IF pick_value_type = "first_non_null"
         THEN IF Len(result) < 1 THEN <<"raise", "WorkflowException">>
              ELSE <<"return", result[1]>>
         ELSE IF pick_value_type = "the_only_non_null"
         THEN IF Len(result) = 0 THEN <<"raise", "WorkflowException">>
              ELSE IF Len(result) > 1 THEN <<"raise", "WorkflowException">>
              ELSE <<"return", result[1]>>
         ELSE IF pick_value_type = "all_non_null"
         THEN <<"return", <<"l", result>>>>
         ELSE <<"raise", "WorkflowException">>

PickValue ==
    /\ call # None
    /\ call.f = "pick_value"
    /\ call.result = None
    /\ call' = [call EXCEPT !.result = pick_value(call.pickValue, call.values)]
    /\ UNCHANGED <<frontVars, workerVars, envVars, obsVars, retry, libVars, wf, tr, ex>>

\* A source value that link_merge is handed: a value <<"v", x>>, or a list
\* <<"l", values>> of values and lists.
InnerValues == {<<"v", 1>>, <<"v", 2>>, <<"l", <<<<"v", 1>>>>>>}

SourceValues ==
    {<<"v", 1>>, <<"v", 2>>}
    \cup {<<"l", l>> : l \in UNION {[1..n -> InnerValues] : n \in 0..2}}

\* The input's linkMerge, "absent" when it has none.
LinkMergeTypes == {"absent", "merge_nested", "merge_flattened", "merge_any"}

\* A merge_flattened that appends a list as it does a value.
append_only(result, v) == Append(result, v)

\* result.extend(v) for a list, result.append(v) for anything else.
extend_or_append(result, v) ==
    IF v[1] = "l" THEN result \o v[2] ELSE Append(result, v)

\* The merge_flattened loop over the first n values.
RECURSIVE merge_flattened(_, _)
merge_flattened(values, n) ==
    IF n = 0 THEN <<>>
    ELSE extend_or_append(merge_flattened(values, n - 1), values[n])

\* ResolveSource.link_merge
link_merge(linkMerge, values) ==
    LET link_merge_type == IF linkMerge = "absent" THEN "merge_nested" ELSE linkMerge IN
    IF link_merge_type = "merge_nested" THEN <<"return", values>>
    ELSE IF link_merge_type = "merge_flattened"
    THEN <<"return", merge_flattened(values, Len(values))>>
    ELSE <<"raise", "ValidationException">>

LinkMerge ==
    /\ call # None
    /\ call.f = "link_merge"
    /\ call.result = None
    /\ call' = [call EXCEPT !.result = link_merge(call.linkMerge, call.values)]
    /\ UNCHANGED <<frontVars, workerVars, envVars, obsVars, retry, libVars, wf, tr, ex>>

\* ------------------------------------------------ conditional steps, sources
\* A parameter id is its path, <<step, port>>; shortname is its last part.
shortname(id) == id[Len(id)]

\* The output ports every step of the calls declares.
StepOutputs(n) == {<<n, "out">>, <<n, "log">>}

\* What a step's `when` expression evaluates to; "absent" when it has none.
WhenValues == {"absent", "true", "false", "other"}

\* A conditional that takes every boolean for true.
is_false_never(when) == <<"return", FALSE>>

\* Conditional.is_false
is_false(when) ==
    IF when = "absent" THEN <<"return", FALSE>>
    ELSE IF when \in {"true", "false"} THEN <<"return", when # "true">>
    ELSE <<"raise", "WorkflowException">>

\* A skipped step whose outputs are plain nulls.
skipped_outputs_null(outputs) == [k \in {shortname(o) : o \in outputs} |-> <<"null">>]

\* Conditional.skipped_outputs
skipped_outputs(outputs) == [k \in {shortname(o) : o \in outputs} |-> <<"skip">>]

\* The values a step that runs may give its port "out".
OutValues ==
    {<<"null">>, <<"v", "a">>,
     <<"l", << <<"skip">>, <<"v", "a">> >> >>,
     <<"d", << <<"k", <<"l", << <<"skip">> >> >> >> >> >>}

\* A filter that leaves every value as it is.
skip_null_left(value) == value

\* _filter_skip_null: the sentinel becomes null, in lists and dictionaries
\* at any depth.
RECURSIVE _filter_skip_null(_)
_filter_skip_null(value) ==
    IF value[1] = "skip" THEN <<"null">>
    ELSE IF value[1] = "l"
    THEN <<"l", [n \in DOMAIN value[2] |-> _filter_skip_null(value[2][n])]>>
    ELSE IF value[1] = "d"
    THEN <<"d", [n \in DOMAIN value[2] |->
                    <<value[2][n][1], _filter_skip_null(value[2][n][2])>>]>>
    ELSE value

filter_skip_null(value) == _filter_skip_null(value)

\* ResolveSource.__init__ and resolve on the return values rvs of the source
\* steps, all sources naming the port "out": promise_tuples is a list when
\* the input has a linkMerge or several sources, and one tuple otherwise.
\* The result carries the value pick_value returned and the filtered value.
ResolveSource_resolve(linkMerge, pickValue, rvs) ==
    LET names == [n \in DOMAIN rvs |-> shortname(<<n, "out">>)]
        merged == IF linkMerge # "absent" \/ Len(rvs) > 1
                  THEN LET lm == link_merge(linkMerge, [n \in DOMAIN rvs |-> rvs[n][names[n]]])
                       IN IF lm[1] = "raise" THEN lm ELSE <<"return", <<"l", lm[2]>>>>
                  ELSE <<"return", rvs[1][names[1]]>>
    IN IF merged[1] = "raise" THEN merged
       ELSE LET picked == pick_value(pickValue, merged[2])
            IN IF picked[1] = "raise" THEN picked
               ELSE <<"return", filter_skip_null(picked[2]), picked[2]>>

\* The default of a DefaultWithSource.
DefaultValue == <<"v", "b">>

\* The resolve of the object a step input holds: a ResolveSource, a
\* DefaultWithSource around one, or a StepValueFrom around one.
resolve(holder, linkMerge, pickValue, rvs) ==
    LET result == ResolveSource_resolve(linkMerge, pickValue, rvs) IN
    IF holder = "DefaultWithSource" /\ result[1] = "return" /\ result[2] = <<"null">>
    THEN <<"return", DefaultValue, result[3]>>
    ELSE result

\* The source steps run: a step whose `when` is false returns the skipped
\* outputs, any other its outputs.
SourceStepsReturn ==
    /\ call # None
    /\ call.f = "resolve"
    /\ call.rvs = None
    /\ call' = [call EXCEPT !.rvs =
                  [n \in DOMAIN call.steps |->
                      IF is_false(call.steps[n].when)[2]
                      THEN skipped_outputs(StepOutputs(n))
                      ELSE [k \in {shortname(o) : o \in StepOutputs(n)} |->
                               IF k = "out" THEN call.steps[n].out ELSE <<"v", "b">>]]]
    /\ UNCHANGED <<frontVars, workerVars, envVars, obsVars, retry, libVars, wf, tr, ex>>

\* The consumer's input is resolved.
Resolve ==
    /\ call # None
    /\ call.f = "resolve"
    /\ call.rvs # None
    /\ call.result = None
    /\ call' = [call EXCEPT !.result =
                  resolve(call.holder, call.linkMerge, call.pickValue, call.rvs)]
    /\ UNCHANGED <<frontVars, workerVars, envVars, obsVars, retry, libVars, wf, tr, ex>>

\* ------------------------------------------------ resolve_dict_w_promises
\* A File object whose contents are not loaded, and the same with them.
FileValue == <<"d", << <<"contents", <<"null">> >> >> >>

LoadedFileValue == <<"d", << <<"contents", <<"v", "bytes">> >> >> >>

\* The values of a job's input dictionary: plain values, a JustAValue around
\* one, and a StepValueFrom <<"StepValueFrom", loadContents>> whose source
\* has loadContents or not.
DictValues ==
    {<<"v", "a">>, <<"null">>, FileValue, <<"JustAValue", <<"v", "a">> >>,
     <<"StepValueFrom", TRUE>>, <<"StepValueFrom", FALSE>>}

\* The dictionaries of the calls: the pairs in order, and whether the
\* dictionary is tagged as an UnresolvedDict.
InputDicts ==
    [unresolved : BOOLEAN,
     items : UNION {[1..n -> DictValues] : n \in 0..MaxContents}]

\* A resolver that takes every entry for a StepValueFrom.
isinstance_anything(v) == TRUE

\* isinstance(v, StepValueFrom)
isinstance_StepValueFrom(v) == v[1] = "StepValueFrom"

\* v.resolve() of an entry of an UnresolvedDict; a plain value has none.
entry_resolve(v) ==
    IF v[1] = "JustAValue" THEN <<"return", v[2]>>
    ELSE IF v[1] = "StepValueFrom" THEN <<"return", <<"v", "a">> >>
    ELSE <<"raise", "AttributeError">>

\* StepValueFrom.eval_prep on one of the step inputs: the contents of a file
\* are read into it when the source has loadContents.
eval_prep(loadContents, val) ==
    IF val = FileValue /\ loadContents THEN LoadedFileValue ELSE val

\* All the eval_prep calls of one resolve_dict_w_promises on a value.
prepared(items, file_store, val) ==
    IF file_store /\ \E n \in DOMAIN items :
                        isinstance_StepValueFrom(items[n]) /\ eval_prep(items[n][2], val) # val
    THEN LoadedFileValue
    ELSE val

\* resolve_dict_w_promises: what it returns, and the dictionary it was
\* handed as it is afterwards.  The values of a dictionary that is not an
\* UnresolvedDict are the objects eval_prep writes to.
resolve_dict_w_promises(dict_w_promises, file_store) ==
    LET items == dict_w_promises.items
        first == [n \in DOMAIN items |->
                     IF dict_w_promises.unresolved THEN entry_resolve(items[n])
                     ELSE <<"return", items[n]>>]
        first_pass_results == [n \in DOMAIN items |->
                                  IF isinstance_StepValueFrom(items[n]) /\ ~dict_w_promises.unresolved
                                  THEN first[n][2]
                                  ELSE prepared(items, file_store, first[n][2])]
    IN IF \E n \in DOMAIN items : first[n][1] = "raise"
       THEN [status |-> "raise", result |-> None, input |-> dict_w_promises]
       ELSE [status |-> "return",
             result |-> [unresolved |-> FALSE,
                         items |-> [n \in DOMAIN items |->
                                       IF isinstance_StepValueFrom(items[n])
                                       THEN <<"v", "evaluated">>
                                       ELSE first_pass_results[n]]],
             input |-> IF dict_w_promises.unresolved THEN dict_w_promises
                       ELSE [dict_w_promises EXCEPT !.items = first_pass_results]]

\* The first call on the dictionary.
ResolveDict ==
    /\ call # None
    /\ call.f = "resolve_dict_w_promises"
    /\ call.once = None
    /\ call' = [call EXCEPT !.once = resolve_dict_w_promises(call.dict, call.file_store)]
    /\ UNCHANGED <<frontVars, workerVars, envVars, obsVars, retry, libVars, wf, tr, ex>>

\* The second call, on what the first returned.
ResolveDictAgain ==
    /\ call # None
    /\ call.f = "resolve_dict_w_promises"
    /\ call.once # None
    /\ call.once.status = "return"
    /\ call.twice = None
    /\ call' = [call EXCEPT !.twice = resolve_dict_w_promises(call.once.result, call.file_store)]
    /\ UNCHANGED <<frontVars, workerVars, envVars, obsVars, retry, libVars, wf, tr, ex>>

\* ------------------------------------------- CWLJob.run, CWLWorkflow.run
\* What the body of run does after the conditional, in order: of a tool job
\* the defaults, the environment, the output directory, the tool under
\* cwltool's executor with its staged inputs, the import of the outputs; of
\* a sub-workflow job the defaults and the jobs of its steps.
RunBody(kind) ==
    IF kind = "tool"
    THEN <<"fill_in_defaults", "populate_env_vars", "os.mkdir", "execute", "import_files">>
    ELSE <<"fill_in_defaults", "addChild", "addFollowOn">>

\* The body's effects among the effects of a run.
BodyEffects(effects) == {effects[i] : i \in 1..Len(effects)} \ {"loadContents"}

\* cwljob = resolve_dict_w_promises(self.cwljob, file_store); the contents
\* of a file are read when an input's source asks for them.
RunResolves ==
    /\ call # None
    /\ call.f = "run"
    /\ call.pc = "start"
    /\ LET resolved == resolve_dict_w_promises(call.cwljob, TRUE)
       IN call' = IF resolved.status = "raise"
                  THEN [call EXCEPT !.pc = "raised", !.result = <<"raise", "AttributeError">>]
                  ELSE [call EXCEPT !.pc = "resolved",
                                    !.cwljob = resolved.result,
                                    !.effects = IF \E n \in DOMAIN resolved.result.items :
                                                      resolved.result.items[n] = LoadedFileValue
                                                   \/ resolved.input # call.cwljob
                                                THEN Append(@, "loadContents") ELSE @]
    /\ UNCHANGED <<frontVars, workerVars, envVars, obsVars, retry, libVars, wf, tr, ex>>

\* if self.conditional.is_false(cwljob): return self.conditional.skipped_outputs()
RunConditional ==
    /\ call # None
    /\ call.f = "run"
    /\ call.pc = "resolved"
    /\ LET skip == is_false(call.when)
       IN call' = IF skip[1] = "raise"
                  THEN [call EXCEPT !.pc = "raised", !.result = skip]
                  ELSE IF skip[2]
                  THEN [call EXCEPT !.pc = "returned",
                                    !.result = <<"return", skipped_outputs(call.outputs)>>]
                  ELSE [call EXCEPT !.pc = "body"]
    /\ UNCHANGED <<frontVars, workerVars, envVars, obsVars, retry, libVars, wf, tr, ex>>

\* The next statement of the body; the tool may fail, and the last statement
\* is followed by the return of the outputs.
RunBodyStep ==
    /\ call # None
    /\ call.f = "run"
    /\ call.pc = "body"
    /\ LET body == RunBody(call.kind)
           done == Cardinality(BodyEffects(call.effects))
           effects == Append(call.effects, body[done + 1])
       IN \/ call' = IF done + 1 = Len(body)
                     THEN [call EXCEPT !.effects = effects, !.pc = "returned",
                                       !.result = <<"return",
                                                    [k \in {shortname(o) : o \in call.outputs} |->
                                                        <<"v", "a">>]>>]
                     ELSE [call EXCEPT !.effects = effects]
          \/ /\ body[done + 1] = "execute"
             /\ call' = [call EXCEPT !.effects = effects, !.pc = "raised",
                                     !.result = <<"raise", "WorkflowException">>]
    /\ UNCHANGED <<frontVars, workerVars, envVars, obsVars, retry, libVars, wf, tr, ex>>

\* ------------------------------------------------ scatter and gather
\* The keys of a scattered step's job object: "x" and "y" hold lists, "z"
\* a plain value.
JobKeys == {"x", "y", "z"}

AxisLists == UNION {[1..n -> {<<"v", 1>>, <<"v", 2>>}] : n \in 0..MaxAxis}

JobObjects ==
    {[k \in JobKeys |-> IF k = "x" THEN <<"l", x>> ELSE IF k = "y" THEN <<"l", y>>
                        ELSE <<"v", 0>>] : x \in AxisLists, y \in AxisLists}

\* step.tool["scatter"] as a list of keys, and step.tool.get("scatterMethod").
ScatterKeys == {<<"x">>, <<"y">>, <<"x", "y">>, <<"y", "x">>}

ScatterMethods == {"absent", "dotproduct", "nested_crossproduct", "flat_crossproduct", "other"}

\* postScatterEval: an input with a valueFrom gets the value of its
\* expression, evaluated with the input's value as context.
postScatterEval(valueFrom, job_dict) ==
    [k \in JobKeys |-> IF k \in valueFrom THEN <<"e", job_dict[k]>> ELSE job_dict[k]]

\* The number of elements of a job object's list at a key.
AxisLen(joborder, key) == Len(joborder[key][2])

\* The range of the dotproduct loop: the length of the first scatter input.
dotproduct_range(cwljob, scatter) == AxisLen(cwljob, scatter[1])

\* The dotproduct branch of CWLScatter.run: the job objects of the children
\* added, in order, and how the loop ends; cwljob[sc][i] raises IndexError
\* at the first i that a scatter input does not have.
dotproduct_scatter(valueFrom, cwljob, scatter) ==
    LET N == dotproduct_range(cwljob, scatter)
        has(i) == \A m \in DOMAIN scatter : i <= AxisLen(cwljob, scatter[m])
        last == IF \A i \in 1..N : has(i) THEN N
                ELSE (CHOOSE i \in 1..N : ~has(i) /\ \A j \in 1..(i - 1) : has(j)) - 1
        keys == Range(scatter)
    IN [status |-> IF last = N THEN "return" ELSE "raise IndexError",
        children |-> [i \in 1..last |->
                         postScatterEval(valueFrom,
                             [k \in JobKeys |-> IF k \in keys THEN cwljob[k][2][i]
                                                ELSE cwljob[k]])],
        outputs |-> <<"l", [i \in 1..last |-> <<"p", i>>]>>]

\* The number of children below one level of a crossproduct.
RECURSIVE CrossSize(_, _)
CrossSize(joborder, scatter_keys) ==
    IF scatter_keys = <<>> THEN 1
    ELSE AxisLen(joborder, scatter_keys[1]) * CrossSize(joborder, Tail(scatter_keys))

\* The job objects of the children a crossproduct adds, in the order of
\* addChild: for every element of the first key's list in turn, the children
\* of the other keys.
RECURSIVE crossproduct_children(_, _, _)
RECURSIVE crossproduct_children_from(_, _, _, _)
crossproduct_children_from(valueFrom, joborder, scatter_keys, n) ==
    IF n > AxisLen(joborder, scatter_keys[1]) THEN <<>>
    ELSE LET updated_joborder ==
                 [joborder EXCEPT ![scatter_keys[1]] = joborder[scatter_keys[1]][2][n]]
         IN (IF Len(scatter_keys) = 1
             THEN <<postScatterEval(valueFrom, updated_joborder)>>
             ELSE crossproduct_children(valueFrom, updated_joborder, Tail(scatter_keys)))
            \o crossproduct_children_from(valueFrom, joborder, scatter_keys, n + 1)

crossproduct_children(valueFrom, joborder, scatter_keys) ==
    crossproduct_children_from(valueFrom, joborder, scatter_keys, 1)

\* The outputs of nested_crossproduct_scatter: one list for every key, with
\* the promises of the children, numbered from base + 1 on, at the bottom.
RECURSIVE nested_crossproduct_outputs(_, _, _)
nested_crossproduct_outputs(joborder, scatter_keys, base) ==
    <<"l", [n \in 1..AxisLen(joborder, scatter_keys[1]) |->
              IF Len(scatter_keys) = 1 THEN <<"p", base + n>>
              ELSE nested_crossproduct_outputs(
                       joborder, Tail(scatter_keys),
                       base + (n - 1) * CrossSize(joborder, Tail(scatter_keys)))]>>

\* A nested_crossproduct that returns the flat list.
nested_as_flat(valueFrom, cwljob, scatter) ==
    [status |-> "return",
     children |-> crossproduct_children(valueFrom, cwljob, scatter),
     outputs |-> <<"l", [n \in 1..CrossSize(cwljob, scatter) |-> <<"p", n>>]>>]

nested_crossproduct_scatter(valueFrom, cwljob, scatter) ==
    [status |-> "return",
     children |-> crossproduct_children(valueFrom, cwljob, scatter),
     outputs |-> nested_crossproduct_outputs(cwljob, scatter, 0)]

\* flat_crossproduct_scatter: every child's promise is appended to the one
\* list.
flat_crossproduct_scatter(valueFrom, cwljob, scatter) ==
    [status |-> "return",
     children |-> crossproduct_children(valueFrom, cwljob, scatter),
     outputs |-> <<"l", [n \in 1..CrossSize(cwljob, scatter) |-> <<"p", n>>]>>]

\* CWLScatter.run: a scatter over one key is a dotproduct.
CWLScatter_run(valueFrom, cwljob, scatter, method) ==
    LET scatterMethod == IF Len(scatter) = 1 THEN "dotproduct" ELSE method IN
    IF scatterMethod = "dotproduct" THEN dotproduct_scatter(valueFrom, cwljob, scatter)
    ELSE IF scatterMethod = "nested_crossproduct"
    THEN nested_crossproduct_scatter(valueFrom, cwljob, scatter)
    ELSE IF scatterMethod = "flat_crossproduct"
    THEN flat_crossproduct_scatter(valueFrom, cwljob, scatter)
    ELSE [status |-> "raise ValidationException", children |-> <<>>, outputs |-> <<"l", <<>>>>]

\* What the job of a child returns: a value for every output port of the
\* step, here the job object it was given and a constant.
subjob_result(joborder) ==
    [k \in {"out", "log"} |-> IF k = "out" THEN <<"o", joborder>> ELSE <<"v", 0>>]

\* A gather that lists the results in the order the children finished.
extract_as_finished(outputs, results, finished, k) ==
    <<"l", [n \in DOMAIN finished |-> results[finished[n]][k]]>>

\* CWLGather.extract on the unwrapped outputs: the port's value of a result,
\* and the list of the extracts of a list.
RECURSIVE extract(_, _, _, _)
extract(outputs, results, finished, k) ==
    IF outputs[1] = "p" THEN results[outputs[2]][k]
    ELSE <<"l", [n \in DOMAIN outputs[2] |-> extract(outputs[2][n], results, finished, k)]>>

\* The scatter job runs.
ScatterRun ==
    /\ call # None
    /\ call.f = "scatter"
    /\ call.pc = "start"
    /\ LET run == CWLScatter_run(call.valueFrom, call.cwljob, call.scatter, call.scatterMethod)
       IN call' = [call EXCEPT !.pc = IF run.status = "return" THEN "scattered" ELSE "failed",
                               !.status = run.status,
                               !.children = run.children,
                               !.outputs = run.outputs,
                               !.results = [n \in DOMAIN run.children |-> None]]
    /\ UNCHANGED <<frontVars, workerVars, envVars, obsVars, retry, libVars, wf, tr, ex>>

\* The job of one of the children returns; the children run in parallel.
SubjobReturns ==
    /\ call # None
    /\ call.f = "scatter"
    /\ call.pc = "scattered"
    /\ \E n \in DOMAIN call.children :
         /\ call.results[n] = None
         /\ call' = [call EXCEPT !.results[n] = subjob_result(call.children[n]),
                                 !.finished = Append(@, n)]
    /\ UNCHANGED <<frontVars, workerVars, envVars, obsVars, retry, libVars, wf, tr, ex>>

\* The gather job, a follow-on of the scatter job, runs when all children
\* have returned.
GatherRun ==
    /\ call # None
    /\ call.f = "scatter"
    /\ call.pc = "scattered"
    /\ \A n \in DOMAIN call.children : call.results[n] # None
    /\ call' = [call EXCEPT !.pc = "gathered",
                            !.outobj = [k \in {"out", "log"} |->
                                           extract(call.outputs, call.results, call.finished, k)]]
    /\ UNCHANGED <<frontVars, workerVars, envVars, obsVars, retry, libVars, wf, tr, ex>>

ScatterInit == DispatcherInit /\ retry = None /\ wf = None /\ tr = None /\ ex = None
               /\ LibIdle
               /\ call \in {[f |-> "scatter", valueFrom |-> vf, cwljob |-> job, scatter |-> sc,
                             scatterMethod |-> m, pc |-> "start", status |-> None,
                             children |-> <<>>, outputs |-> None, results |-> <<>>,
                             finished |-> <<>>, outobj |-> None] :
                               vf \in {{}, {"z"}}, job \in JobObjects, sc \in ScatterKeys,
                               m \in ScatterMethods}

ScatterNext == ScatterRun \/ SubjobReturns \/ GatherRun

\* A scatter step on every job object, and its gather.
ScatterSpec == ScatterInit /\ [][ScatterNext]_vars

\* The calls of the staging and value functions, before they are made.
CwlCalls ==
    {[f |-> "visit", pathmap |-> <<>>, visits |-> 0]}
    \cup {[f |-> "ensure_no_collisions", directory |-> d, result |-> None] : d \in Directories}
    \cup UNION {{[f |-> "directory", contents |-> <<c, same>>, uris |-> None,
                  sub |-> None, decoded |-> None] : same \in Orderings(Range(c))} :
                c \in DirectoryContents}
    \cup {[f |-> "pick_value", pickValue |-> t, values |-> v, result |-> None] :
             t \in PickValueTypes, v \in PickInputs}
    \cup {[f |-> "link_merge", linkMerge |-> t, values |-> v, result |-> None] :
             t \in LinkMergeTypes,
             v \in UNION {[1..n -> SourceValues] : n \in 0..MaxValues}}
    \cup {[f |-> "resolve", holder |-> h, linkMerge |-> lm, pickValue |-> pv, steps |-> st,
           rvs |-> None, result |-> None] :
             h \in {"ResolveSource", "DefaultWithSource", "StepValueFrom"},
             lm \in LinkMergeTypes, pv \in PickValueTypes,
             st \in UNION {[1..n -> [when : {"true", "false"}, out : OutValues]] :
                              n \in 1..MaxValues}}
    \cup {[f |-> "resolve_dict_w_promises", dict |-> d, file_store |-> fs,
           once |-> None, twice |-> None] : d \in InputDicts, fs \in BOOLEAN}
    \cup {[f |-> "run", kind |-> kind, when |-> when, cwljob |-> d,
           outputs |-> StepOutputs(1), pc |-> "start", effects |-> <<>>, result |-> None] :
             kind \in {"tool", "workflow"}, when \in WhenValues, d \in InputDicts}

CwlInit == DispatcherInit /\ retry = None /\ wf = None /\ tr = None /\ ex = None
           /\ LibIdle
           /\ call \in CwlCalls

CwlNext == PathMapperVisit \/ EnsureNoCollisions \/ EncodeDirectory \/ DecodeDirectory
           \/ PickValue \/ LinkMerge \/ SourceStepsReturn \/ Resolve
           \/ ResolveDict \/ ResolveDictAgain
           \/ RunResolves \/ RunConditional \/ RunBodyStep

\* The staging and value functions of the CWL runner, each on every input of
\* its bounded set.
CwlSpec == CwlInit /\ [][CwlNext]_vars

\* ------------------------------------------------- the credential cache
\* BotoCredentialAdapter._obtain_credentials_from_cache_or_boto3: the
\* processes of one user share ~/.cache/aws/cached_temporary_credentials and
\* its neighbour with the suffix .tmp. A file is an inode: open() binds a
\* descriptor to the inode the name has at that moment, and rename() moves a
\* name to another inode.
Procs == 1..NProcs

\* datetime_to_str and str_to_datetime: the expiry time as the fourth line of
\* the record; a line cut short is not a time.
datetime_to_str(dt) == <<dt>>

str_to_datetime(str) == IF Len(str) = 1 THEN <<"return", str[1]>> ELSE <<"raise", "ValueError">>

\* The four lines the winner writes, joined by newlines.
Record(expiry) == <<"access_key", "secret_key", "security_token", datetime_to_str(expiry)>>

\* What the file holds as the bytes of a record reach it: nothing, two lines,
\* four lines of which the last is cut short, the record.
Chunks(record) ==
    << <<>>, SubSeq(record, 1, 2), <<record[1], record[2], record[3], <<>>>>, record >>

\* content.split('\n') and the fields taken from it.
parse_record(content) ==
    IF content = <<>> THEN <<"empty">>
    ELSE IF Len(content) # 4 THEN <<"raise", "Number of cached credentials is not 4.">>
    ELSE str_to_datetime(content[4])

\* _credentials_need_refresh, of boto: the expiry time has come.
_credentials_need_refresh(expiry, now) == expiry <= now

\* What _obtain_credentials_from_boto3 ends with, its retries included: an
\* exception, credentials that never expire, or credentials with an expiry.
BotoOutcomes(now) == {<<"raise">>, <<"permanent">>, <<"temporary", now + 1>>}

\* What the winner has to have in .tmp before it renames it.
Target(got) == IF got[1] = "permanent" THEN <<>> ELSE Record(got[2])

\* os.open with O_CREAT | O_EXCL fails with EEXIST when the name exists.
O_EXCL_ignored(tmp) == FALSE

EEXIST(tmp) == tmp # 0

\* The with block of the write has been left: all of the record is in .tmp.
written_in_part(content, target) == TRUE

written(content, target) == content = target

\* The processes that hold .tmp, and the ones that are asking the backend.
Holders == {p \in Procs : cred.pc[p] \in {"request_locked", "write"}}

Requesting == {p \in Procs : cred.pc[p] \in {"request_locked", "request_own", "request_empty"}}

\* Time passes.
TimePasses ==
    /\ cred # None
    /\ cred.now < MaxClock
    /\ cred' = [cred EXCEPT !.now = @ + 1]
    /\ UNCHANGED <<frontVars, workerVars, envVars, obsVars, retry, cwlVars, spot>>

\* open(path), and on ENOENT the parent directory.
OpenCache(p) ==
    /\ cred # None
    /\ cred.pc[p] = "top"
    /\ cred' = IF cred.path # 0
               THEN [cred EXCEPT !.fd[p] = cred.path, !.pc[p] = "opened"]
               ELSE IF cred.dir THEN [cred EXCEPT !.pc[p] = "race"]
               ELSE IF cred.rofs THEN [cred EXCEPT !.pc[p] = "request_own"]
               ELSE [cred EXCEPT !.dir = TRUE, !.pc[p] = "race"]
    /\ UNCHANGED <<frontVars, workerVars, envVars, obsVars, retry, cwlVars, spot>>

\* f.read() and what the content says.
ReadCache(p) ==
    /\ cred # None
    /\ cred.pc[p] = "opened"
    /\ LET content == cred.files[cred.fd[p]]
           parsed == parse_record(content)
           seen == [cred EXCEPT !.seen[p] = <<"read", content>>, !.fd[p] = 0]
       IN cred' = IF parsed[1] = "empty" THEN [seen EXCEPT !.pc[p] = "request_empty"]
                  ELSE IF parsed[1] = "raise"
                       THEN [seen EXCEPT !.pc[p] = "failed", !.err[p] = parsed[2]]
                  ELSE IF _credentials_need_refresh(parsed[2], cred.now)
                       THEN [seen EXCEPT !.pc[p] = "race"]
                  ELSE [seen EXCEPT !.pc[p] = "done"]
    /\ UNCHANGED <<frontVars, workerVars, envVars, obsVars, retry, cwlVars, spot>>

\* os.open(tmp_path, O_CREAT | O_EXCL | O_WRONLY): one process wins.
RaceToCreate(p) ==
    /\ cred # None
    /\ cred.pc[p] = "race"
    /\ \/ /\ cred.rofs \/ ~cred.dir
          /\ cred' = [cred EXCEPT !.pc[p] = "failed", !.err[p] = "OSError"]
       \/ /\ ~cred.rofs
          /\ cred.dir
          /\ EEXIST(cred.tmp)
          /\ cred' = [cred EXCEPT !.pc[p] = "wait"]
       \/ /\ ~cred.rofs
          /\ cred.dir
          /\ ~EEXIST(cred.tmp)
          /\ Len(cred.files) < MaxInodes
          /\ cred' = [cred EXCEPT !.files = Append(@, <<>>),
                                  !.tmp = Len(cred.files) + 1,
                                  !.fd[p] = Len(cred.files) + 1,
                                  !.pc[p] = "request_locked"]
    /\ UNCHANGED <<frontVars, workerVars, envVars, obsVars, retry, cwlVars, spot>>

\* while os.path.exists(tmp_path): time.sleep(0.1); then from the top.
WaitForWinner(p) ==
    /\ cred # None
    /\ cred.pc[p] = "wait"
    /\ cred.tmp = 0
    /\ cred' = [cred EXCEPT !.pc[p] = "top"]
    /\ UNCHANGED <<frontVars, workerVars, envVars, obsVars, retry, cwlVars, spot>>

\* _obtain_credentials_from_boto3 returns or raises, at each of its three
\* call sites.
RequestReturns(p) ==
    /\ cred # None
    /\ p \in Requesting
    /\ \E got \in BotoOutcomes(cred.now) :
         cred' = IF cred.pc[p] = "request_locked"
                 THEN IF got[1] = "raise"
                      THEN [cred EXCEPT !.tmp = 0, !.fd[p] = 0, !.pc[p] = "failed",
                                        !.err[p] = "Could not obtain AWS credentials from Boto3."]
                      ELSE [cred EXCEPT !.got[p] = got, !.pc[p] = "write"]
                 ELSE IF got[1] = "raise"
                      THEN [cred EXCEPT !.pc[p] = "failed", !.err[p] = "Could not obtain AWS credentials from Boto3."]
                 ELSE IF cred.pc[p] = "request_own"
                      THEN [cred EXCEPT !.got[p] = got, !.pc[p] = "race"]
                 ELSE [cred EXCEPT !.got[p] = got, !.pc[p] = "done"]
    /\ UNCHANGED <<frontVars, workerVars, envVars, obsVars, retry, cwlVars, spot>>

\* fh.write: more of the record reaches .tmp.
WriteCredentials(p) ==
    /\ cred # None
    /\ cred.pc[p] = "write"
    /\ LET chunks == Chunks(Target(cred.got[p]))
           content == cred.files[cred.fd[p]]
       IN /\ content # Target(cred.got[p])
          /\ \E i \in 1..Len(chunks), j \in 1..Len(chunks) :
               /\ chunks[i] = content
               /\ i < j
               /\ cred' = [cred EXCEPT !.files[cred.fd[p]] = chunks[j]]
    /\ UNCHANGED <<frontVars, workerVars, envVars, obsVars, retry, cwlVars, spot>>

\* fh.write raises: the exception leaves the function past the except clause,
\* and .tmp stays as it is.
WriteFails(p) ==
    /\ cred # None
    /\ cred.pc[p] = "write"
    /\ cred.files[cred.fd[p]] # Target(cred.got[p])
    /\ cred' = [cred EXCEPT !.fd[p] = 0, !.pc[p] = "failed", !.err[p] = "OSError"]
    /\ UNCHANGED <<frontVars, workerVars, envVars, obsVars, retry, cwlVars, spot>>

\* os.rename(tmp_path, path), after the descriptor is closed.
RenameTmp(p) ==
    /\ cred # None
    /\ cred.pc[p] = "write"
    /\ written(cred.files[cred.fd[p]], Target(cred.got[p]))
    /\ cred' = [cred EXCEPT !.path = cred.tmp, !.tmp = 0, !.fd[p] = 0, !.pc[p] = "done"]
    /\ UNCHANGED <<frontVars, workerVars, envVars, obsVars, retry, cwlVars, spot>>

\* The cache as earlier runs left it: absent, empty, or a record that is
\* expired or fresh; the file system read-only or not.
CredInit ==
    /\ DispatcherInit /\ retry = None /\ CwlIdle /\ spot = None
    /\ \E rofs \in BOOLEAN, dir \in BOOLEAN,
          files \in {<<>>, << <<>> >>, <<Record(0)>>, <<Record(1)>>} :
         /\ files # <<>> => dir
         /\ cred = [rofs |-> rofs, dir |-> dir, now |-> 0,
                    files |-> files, path |-> Len(files), tmp |-> 0,
                    pc |-> [p \in Procs |-> "top"],
                    fd |-> [p \in Procs |-> 0],
                    got |-> [p \in Procs |-> None],
                    seen |-> [p \in Procs |-> None],
                    err |-> [p \in Procs |-> ""]]

CredNext ==
    \/ TimePasses
    \/ \E p \in Procs : OpenCache(p)
    \/ \E p \in Procs : ReadCache(p)
    \/ \E p \in Procs : RaceToCreate(p)
    \/ \E p \in Procs : WaitForWinner(p)
    \/ \E p \in Procs : RequestReturns(p)
    \/ \E p \in Procs : WriteCredentials(p)
    \/ \E p \in Procs : WriteFails(p)
    \/ \E p \in Procs : RenameTmp(p)

\* The processes of one user obtaining credentials at the same time.
CredSpec == CredInit /\ [][CredNext]_vars

\* A step of process p that is not an exception of fh.write.
Proceeds(p) ==
    \/ OpenCache(p)
    \/ ReadCache(p)
    \/ RaceToCreate(p)
    \/ WaitForWinner(p)
    \/ RequestReturns(p)
    \/ WriteCredentials(p)
    \/ RenameTmp(p)

\* The same processes, each kept going: a process takes its next step while
\* it has one, the backend answers, and a waiting process sees .tmp gone if
\* it stays gone.  Nothing makes fh.write raise: it may, and it may not.
CredLiveSpec == CredInit /\ [][CredNext]_vars /\ \A p \in Procs : WF_vars(Proceeds(p))

\* ------------------------------------------------------ spot requests
\* wait_spot_requests_active: a generator that polls the spot requests,
\* yields the ones that left the open state, and cancels the open ones when
\* it gives up or is unwound.
RequestIds == 1..MaxRequestIds

\* state and status.code of a SpotInstanceRequest.
RequestStates ==
    {<<"open", "pending-evaluation">>, <<"open", "pending-fulfillment">>,
     <<"open", "price-too-low">>, <<"active", "fulfilled">>,
     <<"cancelled", "canceled-before-fulfillment">>}

\* The request objects a describe call returns for the ids, as they are now.
Described(world, ids) == [i \in 1..Len(ids) |-> [id |-> ids[i], state |-> world[ids[i]]]]

\* list(open_ids), in the order of the ids.
RECURSIVE list_of(_)
list_of(ids) ==
    IF ids = {} THEN <<>>
    ELSE LET least == CHOOSE i \in ids : \A j \in ids : i <= j
         IN <<least>> \o list_of(ids \ {least})

\* for r in requests, from the sets as they are: the sets after the loop, or
\* as the RuntimeError of a duplicate leaves them.
RECURSIVE for_requests(_, _)
for_requests(requests, sets) ==
    IF requests = <<>> THEN sets
    ELSE LET r == Head(requests)
         IN IF r.state[1] = "open"
            THEN for_requests(Tail(requests),
                              [sets EXCEPT !.open_ids = @ \cup {r.id},
                                           !.eval_ids = IF r.state[2] = "pending-evaluation"
                                                        THEN @ \cup {r.id} ELSE @,
                                           !.fulfill_ids = IF r.state[2] = "pending-fulfillment"
                                                           THEN @ \cup {r.id} ELSE @])
            ELSE IF r.state[1] = "active"
            THEN IF r.id \in sets.active_ids
                 THEN [sets EXCEPT !.err = "RuntimeError"]
                 ELSE for_requests(Tail(requests),
                                   [sets EXCEPT !.active_ids = @ \cup {r.id},
                                                !.batch = Append(@, r)])
            ELSE IF r.id \in sets.other_ids
                 THEN [sets EXCEPT !.err = "RuntimeError"]
                 ELSE for_requests(Tail(requests),
                                   [sets EXCEPT !.other_ids = @ \cup {r.id},
                                                !.batch = Append(@, r)])

\* cancel(), when open_ids is not empty.
cancel(s) == IF s.open_ids # {} THEN [s EXCEPT !.cancelled = Append(@, s.open_ids)] ELSE s

\* except BaseException: cancel and raise.
unwound(s, exc) == [cancel(s) EXCEPT !.pc = "raised", !.err = exc]

\* After the yield: leave the loop when nothing is open, when tentative and
\* nothing is pending, or when the next sleep would pass the timeout; the
\* else clause of the try then cancels; otherwise sleep.
after_yield(s) ==
    IF \/ s.open_ids = {}
       \/ s.tentative /\ s.eval_ids = {} /\ s.fulfill_ids = {}
       \/ s.timeout # None /\ s.now + 1 >= s.timeout[1]
    THEN [cancel(s) EXCEPT !.pc = "returned"]
    ELSE [s EXCEPT !.pc = "sleep"]

\* One pass of the for loop over the requests of the last describe call.
Poll ==
    /\ spot # None
    /\ spot.pc = "poll"
    /\ LET sets == for_requests(spot.requests,
                                [spot EXCEPT !.open_ids = {}, !.eval_ids = {},
                                             !.fulfill_ids = {}, !.batch = <<>>])
       IN spot' = IF sets.err # "" THEN unwound(sets, sets.err)
                  ELSE IF sets.batch # <<>> THEN [sets EXCEPT !.pc = "yield"]
                  ELSE after_yield(sets)
    /\ UNCHANGED <<frontVars, workerVars, envVars, obsVars, retry, cwlVars, cred>>

\* The consumer asks for the next batch.
ConsumerResumes ==
    /\ spot # None
    /\ spot.pc = "yield"
    /\ spot' = after_yield(spot)
    /\ UNCHANGED <<frontVars, workerVars, envVars, obsVars, retry, cwlVars, cred>>

\* The consumer throws an exception into the generator, or closes it.
ConsumerThrows ==
    /\ spot # None
    /\ spot.pc = "yield"
    /\ \E exc \in {"GeneratorExit", "Exception"} : spot' = unwound(spot, exc)
    /\ UNCHANGED <<frontVars, workerVars, envVars, obsVars, retry, cwlVars, cred>>

\* time.sleep, then get_all_spot_instance_requests(list(open_ids)) returns.
Describe ==
    /\ spot # None
    /\ spot.pc = "sleep"
    /\ spot.now < MaxSleeps
    /\ spot' = [spot EXCEPT !.now = @ + 1,
                            !.requests = Described(spot.world, list_of(spot.open_ids)),
                            !.pc = "poll"]
    /\ UNCHANGED <<frontVars, workerVars, envVars, obsVars, retry, cwlVars, cred>>

\* time.sleep, then get_all_spot_instance_requests raises for good.
DescribeFails ==
    /\ spot # None
    /\ spot.pc = "sleep"
    /\ spot.now < MaxSleeps
    /\ spot' = unwound([spot EXCEPT !.now = @ + 1], "EC2ResponseError")
    /\ UNCHANGED <<frontVars, workerVars, envVars, obsVars, retry, cwlVars, cred>>

\* A request that is open changes its status or leaves the open state.
RequestChanges ==
    /\ spot # None
    /\ spot.pc \in {"poll", "yield", "sleep"}
    /\ \E id \in RequestIds, st \in RequestStates :
         /\ spot.world[id][1] = "open"
         /\ st # spot.world[id]
         /\ spot' = [spot EXCEPT !.world[id] = st]
    /\ UNCHANGED <<frontVars, workerVars, envVars, obsVars, retry, cwlVars, cred>>

\* The requests the caller passes, of which an id may come twice, the timeout
\* in sleeps, and tentative.
SpotInit ==
    /\ DispatcherInit /\ retry = None /\ CwlIdle /\ cred = None
    /\ \E world \in [RequestIds -> RequestStates],
          ids \in UNION {[1..n -> RequestIds] : n \in 1..MaxRequests},
          timeout \in {None} \cup {<<t>> : t \in 1..MaxTimeout},
          tentative \in BOOLEAN :
         spot = [world |-> world, requests |-> Described(world, ids),
                 timeout |-> timeout, tentative |-> tentative, now |-> 0,
                 active_ids |-> {}, other_ids |-> {}, open_ids |-> {},
                 eval_ids |-> {}, fulfill_ids |-> {}, batch |-> <<>>,
                 pc |-> "poll", cancelled |-> <<>>, err |-> ""]

SpotNext ==
    \/ Poll \/ ConsumerResumes \/ ConsumerThrows
    \/ Describe \/ DescribeFails \/ RequestChanges

\* Waiting on every list of spot requests, under every consumer.
SpotSpec == SpotInit /\ [][SpotNext]_vars

\* ------------------------------------------- files in and out of a job
\* toil_get_file, write_file, upload_file and upload_directory on the index
\* and existing dictionaries of one job. A URI is <<scheme, kind, n>>: the
\* scheme "" is a path without scheme, and <<"", "", 0>> the empty string.
EmptyString == <<"", "", 0>>

\* The files already in the job store, the outputs a tool leaves on disk as
\* paths and as file: URIs, a remote file, a directory listing, a literal.
StoredURIs == {<<"toilfile", "id", i>> : i \in 1..MaxStored}

LocalURIs == {<<sch, "out", i>> : sch \in {"", "file"}, i \in 1..MaxLocal}

OtherURIs == {<<"http", "out", 1>>, <<"toildir", "dir", 1>>, <<"_", "lit", 1>>}

\* schema_salad.ref_resolver.file_uri: a path gets the file: scheme, a file:
\* URI stays.
file_uri(path) == IF path[1] = "" THEN <<"file", path[2], path[3]>> ELSE path

\* d[k] = v
Put(d, k, v) == [x \in DOMAIN d \cup {k} |-> IF x = k THEN v ELSE d[x]]

\* A location that is already in Toil.
in_toil_never(location) == FALSE

in_toil(location) == location[1] \in {"toilfile", "toildir", "_"}

\* A lookup that finds nothing in the index.
in_index_never(file_uri_, index) == FALSE

in_index(file_uri_, index) == file_uri_ \in DOMAIN index

\* write_file on the dictionaries of s; ok says whether writeFunc returns.
write_file(s, uri, ok) ==
    IF in_toil(uri) THEN [s EXCEPT !.result = <<"return", uri>>]
    ELSE LET key == IF uri \in DOMAIN s.existing THEN s.existing[uri] ELSE uri
             packed == <<"toilfile", "id", s.ids + 1>>
         IN IF ~in_index(key, s.index)
            THEN IF ok
                 THEN [s EXCEPT !.uploads = Append(@, key),
                                !.ids = @ + 1,
                                !.index = Put(@, key, packed),
                                !.existing = Put(@, packed, key),
                                !.result = <<"return", packed>>]
                 ELSE [s EXCEPT !.uploads = Append(@, key),
                                !.result = <<"raise", "Exception">>]
            ELSE [s EXCEPT !.result = <<"return", s.index[key]>>]

\* toil_get_file, but for the toildir: branch; streaming says whether the
\* file goes through a pipe.
toil_get_file(s, uri, streaming) ==
    LET fresh == <<"", "tmp", s.tmps + 1>>
    IN IF uri[1] = "_"
       THEN [s EXCEPT !.tmps = @ + 1, !.result = <<"return", file_uri(fresh)>>]
       ELSE IF uri[1] \in {"file", ""}
       THEN [s EXCEPT !.result = <<"return", uri>>]
       ELSE LET known == ~streaming /\ uri \in DOMAIN s.existing
                src_path == IF known THEN s.existing[uri] ELSE fresh
            IN [s EXCEPT !.tmps = IF known THEN @ ELSE @ + 1,
                         !.index = Put(@, src_path, uri),
                         !.existing = Put(@, uri, src_path),
                         !.result = <<"return", file_uri(src_path)>>]

\* upload_file on a File object; the result holds the location it is left
\* with.
upload_file(s, file_metadata, skip_broken, skip_remote, isfile, ok) ==
    LET location == file_metadata.location
        located == IF location = EmptyString /\ file_metadata.path # EmptyString
                   THEN file_uri(file_metadata.path) ELSE location
    IN IF in_toil(location) THEN [s EXCEPT !.result = <<"return", location>>]
       ELSE IF location \in DOMAIN s.index
       THEN [s EXCEPT !.result = <<"return", s.index[location]>>]
       ELSE IF located[1] = "file" /\ ~isfile
       THEN IF skip_broken THEN [s EXCEPT !.result = <<"return", located>>]
            ELSE [s EXCEPT !.result = <<"raise", "WorkflowException">>]
       ELSE IF located[1] = "file" \/ ~skip_remote
       THEN write_file(s, located, ok)
       ELSE [s EXCEPT !.result = <<"return", located>>]

\* upload_directory on a Directory object; <<"toildir", "dir", 0>> stands for
\* the encoded contents.
upload_directory(s, directory_metadata, skip_broken, isdir) ==
    LET location == directory_metadata.location
        located == IF location = EmptyString /\ directory_metadata.path # EmptyString
                   THEN file_uri(directory_metadata.path) ELSE location
    IN IF in_toil(location) THEN [s EXCEPT !.result = <<"return", location>>]
       ELSE IF located[1] = "file" /\ ~isdir
       THEN IF skip_broken THEN [s EXCEPT !.result = <<"return", located>>]
            ELSE [s EXCEPT !.result = <<"raise", "WorkflowException">>]
       ELSE [s EXCEPT !.result = <<"return", <<"toildir", "dir", 0>> >>]

\* A call was made: what it was, and the dictionaries as they were before.
Called(s, op, arg) ==
    [s EXCEPT !.n = call.n + 1,
              !.ops = call.ops \cup {op},
              !.last = [op |-> op, arg |-> arg, index |-> call.index,
                        existing |-> call.existing, uploads |-> call.uploads]]

\* The job may go on calling: the last call did not raise.
FilesOpen ==
    /\ call # None
    /\ call.f = "files"
    /\ call.n < MaxFileCalls
    /\ call.result[1] # "raise"

ToilGetFile ==
    /\ FilesOpen
    /\ \E uri \in StoredURIs \cup LocalURIs \cup {<<"http", "out", 1>>, <<"_", "lit", 1>>},
          streaming \in BOOLEAN :
         LET after == toil_get_file(call, uri, streaming)
         IN call' = [Called(after, "toil_get_file", uri) EXCEPT
                         !.fetched = IF uri[1] = "toilfile" /\ ~streaming
                                     THEN Put(@, after.result[2], uri) ELSE @]
    /\ UNCHANGED <<frontVars, workerVars, envVars, obsVars, retry, libVars, wf, tr, ex>>

\* write_file on an output of the tool, or on what an earlier toil_get_file
\* returned.
WriteFile ==
    /\ FilesOpen
    /\ \E uri \in StoredURIs \cup LocalURIs \cup OtherURIs \cup DOMAIN call.fetched
                   \cup {<<"", u[2], u[3]>> : u \in DOMAIN call.fetched},
          ok \in BOOLEAN :
         LET after == write_file(call, uri, ok)
         IN call' = [Called(after, "write_file", uri) EXCEPT
                         !.wrote = IF after.result[1] = "return"
                                   THEN Put(@, uri, after.result[2]) ELSE @]
    /\ UNCHANGED <<frontVars, workerVars, envVars, obsVars, retry, libVars, wf, tr, ex>>

UploadFile ==
    /\ FilesOpen
    /\ \E location \in StoredURIs \cup LocalURIs \cup OtherURIs \cup {EmptyString},
          skip_broken \in BOOLEAN, skip_remote \in BOOLEAN, isfile \in BOOLEAN, ok \in BOOLEAN :
         call' = Called(upload_file(call, [location |-> location, path |-> <<"", "out", 1>>],
                                    skip_broken, skip_remote, isfile, ok),
                        "upload_file", location)
    /\ UNCHANGED <<frontVars, workerVars, envVars, obsVars, retry, libVars, wf, tr, ex>>

UploadDirectory ==
    /\ FilesOpen
    /\ \E location \in StoredURIs \cup LocalURIs \cup OtherURIs \cup {EmptyString},
          skip_broken \in BOOLEAN, isdir \in BOOLEAN :
         call' = Called(upload_directory(call, [location |-> location, path |-> <<"", "out", 1>>],
                                         skip_broken, isdir),
                        "upload_directory", location)
    /\ UNCHANGED <<frontVars, workerVars, envVars, obsVars, retry, libVars, wf, tr, ex>>

\* index and existing as CWLJob.run creates them.
FileInit ==
    /\ DispatcherInit /\ retry = None /\ wf = None /\ tr = None /\ ex = None /\ LibIdle
    /\ call = [f |-> "files", index |-> <<>>, existing |-> <<>>, uploads |-> <<>>,
               ids |-> MaxStored, tmps |-> 0, n |-> 0, ops |-> {},
               result |-> <<"return", EmptyString>>, last |-> None,
               fetched |-> <<>>, wrote |-> <<>>]

FileNext == ToilGetFile \/ WriteFile \/ UploadFile \/ UploadDirectory

\* The calls one job makes on its two dictionaries, in every order.
FileSpec == FileInit /\ [][FileNext]_vars

\* ------------------------------------------------- streamed input files
\* The writer threads toil_get_file starts for streamable files, the tool
\* that reads the pipes, and the loop of CWLJob.run that closes and joins.
\* Lists are objects: lists[1] is the pipe_threads list CWLJob.run made and
\* bound into toil_get_file, the others are the lists toil_get_file made.

\* pipe_threads or []: the list passed when it is not empty, a new empty
\* list when it is.
pipe_threads_real(lists) == IF lists[1] # <<>> THEN 1 ELSE Len(lists) + 1

\* Some read end of the pipe of t is open: the descriptor toil_get_file
\* opened, or the tool's.
ReadEndOpen(t) == call.threads[t].fd = "open" \/ call.threads[t].tool = "open"

\* toil_get_file on a streamable file, called from the tool's path mapper:
\* mkfifo, the thread, os.open of the read end, and the append.
StreamFile ==
    /\ call # None
    /\ call.f = "pipes"
    /\ call.pc = "execute"
    /\ Len(call.threads) < MaxStreams
    /\ \E chunks \in 0..MaxChunks :
         LET real == pipe_threads_real(call.lists)
             th == Len(call.threads) + 1
             lists == IF real > Len(call.lists) THEN Append(call.lists, <<>>) ELSE call.lists
         IN call' = [call EXCEPT
                        !.threads = Append(@, [state |-> "writing", left |-> chunks, buf |-> 0,
                                               fd |-> "open", tool |-> "unopened",
                                               joined |-> FALSE]),
                        !.lists = [lists EXCEPT ![real] = Append(@, th)]]
    /\ UNCHANGED <<frontVars, workerVars, envVars, obsVars, retry, libVars, wf, tr, ex>>

\* The tool opens a pipe, reads a chunk of it, or closes it, at the end of
\* the data or before.
ToolReads ==
    /\ call # None
    /\ call.f = "pipes"
    /\ call.pc = "execute"
    /\ \E t \in DOMAIN call.threads :
         \/ /\ call.threads[t].tool = "unopened"
            /\ call' = [call EXCEPT !.threads[t].tool = "open"]
         \/ /\ call.threads[t].tool = "open"
            /\ call.threads[t].buf > 0
            /\ call' = [call EXCEPT !.threads[t].buf = @ - 1]
         \/ /\ call.threads[t].tool = "open"
            /\ call' = [call EXCEPT !.threads[t].tool = "closed"]
    /\ UNCHANGED <<frontVars, workerVars, envVars, obsVars, retry, libVars, wf, tr, ex>>

\* write_to_pipe: a chunk goes into the pipe when it has room; with no read
\* end open the write fails with EPIPE, which is swallowed; at the end of the
\* data the thread ends.
WriteToPipe ==
    /\ call # None
    /\ call.f = "pipes"
    /\ \E t \in DOMAIN call.threads :
         /\ call.threads[t].state = "writing"
         /\ \/ /\ call.threads[t].left > 0
               /\ ReadEndOpen(t)
               /\ call.threads[t].buf < PipeCapacity
               /\ call' = [call EXCEPT !.threads[t].left = @ - 1, !.threads[t].buf = @ + 1]
            \/ /\ call.threads[t].left > 0
               /\ ~ReadEndOpen(t)
               /\ call' = [call EXCEPT !.threads[t].state = "done"]
            \/ /\ call.threads[t].left = 0
               /\ call' = [call EXCEPT !.threads[t].state = "done"]
    /\ UNCHANGED <<frontVars, workerVars, envVars, obsVars, retry, libVars, wf, tr, ex>>

\* ToilSingleJobExecutor().execute returns: the tool's process is gone and
\* its ends of the pipes with it; a status other than success is raised.
ExecuteReturns ==
    /\ call # None
    /\ call.f = "pipes"
    /\ call.pc = "execute"
    /\ \E status \in {"success", "permanentFail"} :
         call' = [call EXCEPT !.pc = IF status = "success" THEN "closing" ELSE "raised",
                              !.threads = [t \in DOMAIN call.threads |->
                                              [call.threads[t] EXCEPT !.tool = "closed"]]]
    /\ UNCHANGED <<frontVars, workerVars, envVars, obsVars, retry, libVars, wf, tr, ex>>

\* for t, fd in pipe_threads: os.close(fd); t.join() -- one statement at a
\* time, the join waiting for the thread; after the loop the outputs are
\* imported.
CloseAndJoin ==
    /\ call # None
    /\ call.f = "pipes"
    /\ call.pc = "closing"
    /\ IF call.i > Len(call.lists[1])
       THEN call' = [call EXCEPT !.pc = "import_files"]
       ELSE LET t == call.lists[1][call.i]
            IN IF call.threads[t].fd = "open"
               THEN call' = [call EXCEPT !.threads[t].fd = "closed"]
               ELSE /\ call.threads[t].state = "done"
                    /\ call' = [call EXCEPT !.threads[t].joined = TRUE, !.i = @ + 1]
    /\ UNCHANGED <<frontVars, workerVars, envVars, obsVars, retry, libVars, wf, tr, ex>>

\* pipe_threads = [] and the tool about to run.
PipeInit ==
    /\ DispatcherInit /\ retry = None /\ wf = None /\ tr = None /\ ex = None /\ LibIdle
    /\ call = [f |-> "pipes", pc |-> "execute", lists |-> << <<>> >>, threads |-> <<>>, i |-> 1]

PipeNext == StreamFile \/ ToolReads \/ WriteToPipe \/ ExecuteReturns \/ CloseAndJoin

\* A tool job with streamed inputs.
PipeSpec == PipeInit /\ [][PipeNext]_vars

\* ------------------------------------------------------------------ claims
\* The number of updates put on updatedJobsQueue for a job id so far.
UpdatesFor(jobID) == Cardinality({i \in 1..Len(updatedLog) : updatedLog[i].jobID = jobID})

\* Where an id stands in a list it is in.
PosIn(list, x) == CHOOSE i \in 1..Len(list) : list[i] = x

\* The batch id of a job that was submitted: the scheduler numbers its
\* submissions, and the jobs are submitted in the order they are popped.
BatchOf(jobID) == BatchID(PosIn(hist.popped, jobID))

\* The ids of a list from position n + 1 on.
PutSince(log, n) == {log[i] : i \in (n + 1)..Len(log)}

\* C1: the running set never holds more than max_jobs jobs, and the jobs
\* leave the waiting list in the order they were put on it: the popped jobs
\* are in arrival order, and no job still waiting arrived before a popped one.
C1_RunningCapAndFIFO ==
    /\ Cardinality(runningJobs) <= max_jobs
    /\ \A i, k \in 1..Len(hist.popped) :
         i < k => PosIn(hist.appended, hist.popped[i]) < PosIn(hist.appended, hist.popped[k])
    /\ \A i \in 1..Len(hist.popped), w \in IDsOf(waitingJobs) :
         PosIn(hist.appended, hist.popped[i]) < PosIn(hist.appended, w)

\* C1's case: the cap is reached, a job has left the running set, a second job
\* was started from the waiting list and another one still waits.
C1_Witness ==
    /\ Len(hist.popped) >= 2
    /\ Cardinality(runningJobs) = max_jobs
    /\ Len(waitingJobs) >= 1
    /\ \E j \in Range(hist.popped) : j \notin runningJobs

\* C2 as stated: every job the dispatcher has started and no longer tracks
\* has exactly one update on updatedJobsQueue (the worker thread being alive).
C2_ExactlyOneUpdate ==
    pc # "crashed" =>
        \A j \in Range(hist.popped) : j \notin runningJobs => UpdatesFor(j) = 1

\* C2, amended: no job id gets more than one update; a job that has one was
\* submitted, has a non-null exit code and is forgotten; and a submitted job
\* that is no longer tracked has exactly one unless killJob was called for it.
C2_AtMostOneUpdate ==
    /\ \A i, k \in 1..Len(updatedLog) : updatedLog[i].jobID = updatedLog[k].jobID => i = k
    /\ \A i \in 1..Len(updatedLog) :
         LET j == updatedLog[i].jobID IN
         /\ j \in Range(hist.popped)
         /\ j \notin runningJobs
         /\ j \notin DOMAIN batchJobIDs
         /\ sched[BatchOf(j)] # None
    /\ \A j \in Range(hist.popped) :
         (/\ j \notin runningJobs
          /\ j \notin hist.killCalled
          /\ ~(hist.failed # None /\ hist.failed[1] = j /\ hist.failed[2] = "submitJob"))
         => UpdatesFor(j) = 1

\* C2's case: a job's update was put, and the worker is about to check again
\* on the jobs that still run, the clock past statePollingWait.
C2_Witness ==
    /\ Len(updatedLog) >= 1
    /\ runningJobs # {}
    /\ pc = "check"
    /\ ~CheckIsCached

\* C3: a job killed while it is only in waitingJobs is out of waitingJobs and
\* on killedJobsQueue once killJobs' pass is over, is never submitted, and
\* killJob is never called for it.
C3_KilledWaitingJobIsGone ==
    \A j \in hist.killedQueued :
        /\ j \in Range(killedLog)
        /\ j \notin IDsOf(waitingJobs)
        /\ j \notin Range(hist.popped)
        /\ j \notin hist.killCalled

\* C4: a job killJob was called for is put on killedJobsQueue by the confirm
\* loop only with a non-null exit code, and is then out of runningJobs and of
\* batchJobIDs, with no update for it; until then it stays in runningJobs and
\* in killList.
C4_KilledRunningJob ==
    /\ \A j \in hist.confirmed :
         /\ j \in hist.killCalled
         /\ j \in Range(killedLog)
         /\ sched[BatchOf(j)] # None
         /\ j \notin runningJobs
         /\ j \notin DOMAIN batchJobIDs
         /\ UpdatesFor(j) = 0
    /\ \A j \in hist.killCalled \ hist.confirmed :
         /\ j \in runningJobs
         /\ j \in DOMAIN batchJobIDs
         /\ j \in Range(killList)

\* C4's case: a running job was killed, the kill is confirmed by a normal
\* exit code, and the front-end has taken its id from killedJobsQueue.
C4_Witness ==
    \E j \in hist.confirmed :
        /\ sched[BatchOf(j)] = IntStatus(0)
        /\ j \in PutSince(killedLog, 0)
        /\ killedRead = Len(killedLog)

\* C5: in a pass of killJobs, an id that is neither running nor waiting is put
\* on killedJobsQueue in that pass, and is not among the ids killJob was called
\* for and getJobExitCode will be polled for; a pass over such ids only leaves
\* waitingJobs, runningJobs and batchJobIDs as they were.
C5_KillOfUnknownJob ==
    [][(pc = "kill" /\ killQueue # <<>>) =>
          LET unknown == {j \in Range(killQueue) :
                             j \notin runningJobs /\ j \notin IDsOf(waitingJobs)}
          IN /\ unknown \subseteq PutSince(killedLog', Len(killedLog))
             /\ unknown \cap Range(killList') = {}
             /\ unknown \cap (hist'.killCalled \ hist.killCalled) = {}
             /\ unknown = Range(killQueue) =>
                  /\ UNCHANGED <<waitingJobs, runningJobs, batchJobIDs>>
                  /\ killList' = <<>>
                  /\ pc' = "create"]_vars

\* C5's case: an id the worker never had, and an id whose job had ended and
\* been reported, were killed and are on killedJobsQueue.
C5_Witness ==
    /\ \E j \in Range(killedLog) : j \notin Range(hist.appended)
    /\ \E j \in Range(killedLog) : UpdatesFor(j) = 1 /\ j \notin hist.killCalled

\* C6: the update for a job carries the exit code with no reason when
\* getJobExitCode returned an int, and exitStatus 1 with the reason when it
\* returned a BatchJobExitReason; a job with no status yet has no update.
C6_StatusMapping ==
    \A i \in 1..Len(updatedLog) :
        LET info == updatedLog[i]
            status == sched[BatchOf(info.jobID)]
        IN /\ status # None
           /\ IF IsReason(status)
              THEN info.exitStatus = IntStatus(1) /\ info.exitReason = status
              ELSE info.exitStatus = status /\ info.exitReason = None

C12_OnePlacePerJob ==
    /\ [](/\ IDsOf(waitingJobs) \cap runningJobs = {}
          /\ \A i, k \in 1..Len(waitingJobs) :
                waitingJobs[i][1] = waitingJobs[k][1] => i = k)
    /\ [][\A j \in Range(hist.appended) :
            /\ (j \notin IDsOf(waitingJobs) /\ j \notin runningJobs)
                 => (j \notin IDsOf(waitingJobs') /\ j \notin runningJobs')
            /\ j \in runningJobs => j \notin IDsOf(waitingJobs')]_vars

\* C12's case: one job has come to its end and is in neither, one runs and
\* one waits.
C12_Witness ==
    /\ \E j \in Range(hist.appended) : j \notin IDsOf(waitingJobs) /\ j \notin runningJobs
    /\ runningJobs # {}
    /\ waitingJobs # <<>>

\* The step ids a step depends on, directly or through other steps.
RECURSIVE Upstream(_, _)
Upstream(ids, n) ==
    IF n = 0 THEN ids
    ELSE Upstream(ids \cup UNION {wf.steps[i].sources \ {WorkflowInput} : i \in ids}, n - 1)

\* The workflow's step dependency graph has no cycle.
Acyclic ==
    \A i \in DOMAIN wf.steps :
        i \notin Upstream(wf.steps[i].sources \ {WorkflowInput}, Len(wf.steps))

\* C13: in its turn of a pass a step without a job gets one exactly when
\* every source of its inputs is a key of promises at that moment, and a step
\* that has a job gets no other: no step's job is made twice.
C13_ScheduledIffSourcesPromised ==
    /\ [](tr # None => \A i \in DOMAIN tr.made : tr.made[i] = IF i \in DOMAIN tr.jobs THEN 1 ELSE 0)
    /\ [][(tr # None /\ tr.pc = "pass" /\ tr.idx <= Len(wf.steps)) =>
            LET step == wf.steps[tr.idx] IN
            /\ step.id \notin DOMAIN tr.jobs =>
                 ((step.id \in DOMAIN tr'.jobs)
                    <=> (\A s \in step.sources : s \in DOMAIN tr.promises))
            /\ step.id \in DOMAIN tr.jobs =>
                 /\ tr'.jobs = tr.jobs
                 /\ tr'.promises = tr.promises
                 /\ tr'.children = tr.children
                 /\ tr'.followOns = tr.followOns]_vars

\* C13's case: in a second pass, a step that was passed over in the first has
\* got its job, one step that has a job was visited again, and one step still
\* has no job.
C13_Witness ==
    /\ tr # None
    /\ tr.pc = "pass"
    /\ tr.passes = 2
    /\ tr.idx = 3
    /\ 1 \in DOMAIN tr.jobs
    /\ 2 \in DOMAIN tr.jobs
    /\ 3 \notin DOMAIN tr.jobs
    /\ wf.steps[1].sources = {2}

\* C14: on a workflow whose step dependency graph has no cycle (every source
\* is the workflow input or a step's output) the translator loop ends, after at
\* most as many passes as there are steps, and when it has ended every step
\* has a job and the workflow output's source is a key of promises.
C14_TranslatorEnds ==
    (tr # None /\ Acyclic) =>
        /\ tr.pc # "cut"
        /\ tr.passes <= Len(wf.steps)
        /\ tr.pc = "returned" =>
             /\ DOMAIN tr.jobs = DOMAIN wf.steps
             /\ wf.out.source \in DOMAIN tr.promises

\* C14's case: the steps are listed against their dependencies (3 feeds 2
\* feeds 1), the output has no "source" key, and the loop has ended.
C14_Witness ==
    /\ tr # None
    /\ tr.pc = "returned"
    /\ tr.passes = 3
    /\ wf.steps[1].sources = {2}
    /\ wf.steps[2].sources = {3}
    /\ wf.steps[3].sources = {WorkflowInput}
    /\ ~wf.out.hasSource
    /\ wf.out.source = 1

\* The jobs that produce the value of a parameter: the workflow's job for the
\* workflow input; for a step's output the step's job, the jobs its run adds,
\* and its follow-on.
Producers(s) ==
    IF s = WorkflowInput THEN {SelfJob}
    ELSE {WfJob(wf.steps[s]), FollowOnOf(wf.steps[s])}
         \cup {edge[2] : edge \in RunAddsChildren(WfJob(wf.steps[s]))}

\* C15: the job of every step that has one is attached behind the producer
\* promises[s] of every source s of its inputs, as a follow-on when the
\* producer is a job wrapper or a gather and as a child otherwise; and no
\* step's job has started unless every job producing one of its sources has
\* finished.
C15_ConsumerBehindProducers ==
    tr # None =>
        \A i \in DOMAIN tr.jobs :
            \A s \in wf.steps[i].sources :
                /\ s \in DOMAIN tr.promises
                /\ IF (tr.promises[s][1] = "wfjob" /\ wf.steps[s].kind = "wrapper")
                      \/ (tr.promises[s][1] = "followOn" /\ wf.steps[s].kind = "scatter")
                   THEN <<tr.promises[s], <<"wfjob", i>>>> \in tr.followOns
                   ELSE <<tr.promises[s], <<"wfjob", i>>>> \in tr.children
                /\ <<"wfjob", i>> \in ex.started => Producers(s) \subseteq Finished

\* C15's case: a scattered step fed by the workflow input and by a job
\* wrapper's step has started its job, behind the wrapper's real job.
C15_Witness ==
    /\ tr # None
    /\ tr.pc = "returned"
    /\ \E i, j \in DOMAIN wf.steps :
         /\ wf.steps[i].sources = {WorkflowInput, j}
         /\ wf.steps[i].kind = "scatter"
         /\ wf.steps[j].kind = "wrapper"
         /\ <<"wfjob", i>> \in ex.started
         /\ <<"real", j>> \in ex.finished

\* C16: (the statement that fails) the files with distinct locations that
\* ask for the same target get pairwise distinct targets from the path mapper:
\* the first keeps the target and every later one gets it with a suffix of its
\* own.
C16_DistinctTargets ==
    (call # None /\ call.f = "visit") =>
        \A m, n \in DOMAIN call.pathmap :
            (/\ m < n
             /\ ~call.pathmap[m].literal
             /\ ~call.pathmap[n].literal
             /\ call.pathmap[m].basename = call.pathmap[n].basename)
                => /\ call.pathmap[m].target # call.pathmap[n].target
                   /\ \E i \in 2..(MaxFiles + 1) :
                        call.pathmap[n].target = Suffixed(call.pathmap[n].basename, i)

\* C17: ensure_no_collisions raises the staging conflict exactly when two
\* entries of the directory's own listing that have a basename have the same
\* one, and returns otherwise, whatever the listings of subdirectories hold.
C17_CollisionIffSharedBasename ==
    (call # None /\ call.f = "ensure_no_collisions" /\ call.result # None) =>
        LET listing == IF call.directory.hasListing THEN call.directory.listing ELSE <<>>
            shared == \E m, n \in DOMAIN listing :
                          /\ m # n
                          /\ listing[m].hasBasename
                          /\ listing[n].hasBasename
                          /\ listing[m].basename = listing[n].basename
        IN call.result[1] = IF shared THEN "raise File staging conflict" ELSE "return"

\* C17's case: a listing whose first and third entries share a basename has
\* been refused.
C17_Witness ==
    /\ call # None
    /\ call.f = "ensure_no_collisions"
    /\ call.result = <<"raise File staging conflict">>
    /\ call.directory.hasListing
    /\ Len(call.directory.listing) = 3
    /\ call.directory.listing[1].basename = call.directory.listing[3].basename
    /\ call.directory.listing[2].basename # call.directory.listing[1].basename
    /\ \A n \in 1..3 : call.directory.listing[n].hasBasename

\* Two directory contents dicts are equal: the same names with equal items,
\* in whatever order they were inserted.
RECURSIVE DictEq(_, _)
DictEq(c, d) ==
    /\ {c[n][1] : n \in DOMAIN c} = {d[n][1] : n \in DOMAIN d}
    /\ \A m \in DOMAIN c : \A n \in DOMAIN d :
         c[m][1] = d[n][1] =>
            /\ c[m][2][1] = d[n][2][1]
            /\ IF c[m][2][1] = "f" THEN c[m][2][2] = d[n][2][2]
               ELSE DictEq(c[m][2][2], d[n][2][2])

\* C18: (the statement that fails) a contents dict without nameless entries
\* is encoded, and decoding its URI gives back the dict, no path below it and
\* the base64 text as the key; and two equal dicts are encoded to the same URI.
C18_RoundTripAndOneURI ==
    (call # None /\ call.f = "directory" /\ call.uris # None
         /\ ~HasNamelessEntry(call.contents[1])) =>
        /\ call.uris[1][1] = "return"
        /\ (call.decoded # None /\ call.sub = None) =>
              /\ call.decoded[1] = "return"
              /\ DictEq(call.decoded[2], call.contents[1])
              /\ call.decoded[3] = None
              /\ call.decoded[4] = Tail(call.uris[1][2])
        /\ DictEq(call.contents[1], call.contents[2]) => call.uris[1] = call.uris[2]

\* The k-th smallest index of a set of indices.
KthOf(S, k) == CHOOSE i \in S : Cardinality({j \in S : j <= i}) = k

\* C19: on a list, with Kept the positions of the entries that are neither
\* null nor a skip sentinel: first_non_null returns the entry at the first
\* kept position and fails when there is none; the_only_non_null returns the
\* entry at the one kept position and fails when there is none or more than
\* one; all_non_null returns the kept entries in their order, possibly none;
\* any other pickValue fails.
C19_PickValue ==
    (call # None /\ call.f = "pick_value" /\ call.result # None
         /\ call.values[1] = "l" /\ call.pickValue # "absent") =>
        LET values == call.values[2]
            Kept == {i \in DOMAIN values : values[i] \notin {<<"null">>, <<"skip">>}}
            failed == call.result[1] = "raise"
        IN /\ call.pickValue = "first_non_null" =>
                IF Kept = {} THEN failed
                ELSE call.result = <<"return", values[KthOf(Kept, 1)]>>
           /\ call.pickValue = "the_only_non_null" =>
                IF Cardinality(Kept) # 1 THEN failed
                ELSE call.result = <<"return", values[KthOf(Kept, 1)]>>
           /\ call.pickValue = "all_non_null" =>
                /\ call.result[1] = "return"
                /\ call.result[2][1] = "l"
                /\ Len(call.result[2][2]) = Cardinality(Kept)
                /\ \A k \in 1..Cardinality(Kept) :
                     call.result[2][2][k] = values[KthOf(Kept, k)]
           /\ call.pickValue \notin {"first_non_null", "the_only_non_null", "all_non_null"} =>
                failed

\* C19's case: the_only_non_null has picked the one value of a list that has
\* a null before it and a skip sentinel after it.
C19_Witness ==
    /\ call # None
    /\ call.f = "pick_value"
    /\ call.pickValue = "the_only_non_null"
    /\ call.values = <<"l", <<<<"null">>, <<"v", "a">>, <<"skip">>>>>>
    /\ call.result = <<"return", <<"v", "a">>>>

\* The number of elements a source value adds to the flattened list.
FlatSize(v) == IF v[1] = "l" THEN Len(v[2]) ELSE 1

\* The number of elements the first n source values add.
RECURSIVE FlatOffset(_, _)
FlatOffset(values, n) ==
    IF n = 0 THEN 0 ELSE FlatOffset(values, n - 1) + FlatSize(values[n])

\* C20: merge_flattened returns the elements of the source values that are
\* lists and the other source values themselves, in order, the elements of
\* inner lists left as they are; merge_nested, and an absent linkMerge, return
\* the list of source values as it is; any other linkMerge fails with a
\* validation error.
C20_LinkMerge ==
    (call # None /\ call.f = "link_merge" /\ call.result # None) =>
        LET values == call.values IN
        /\ call.linkMerge = "merge_flattened" =>
             /\ call.result[1] = "return"
             /\ Len(call.result[2]) = FlatOffset(values, Len(values))
             /\ \A n \in DOMAIN values :
                  IF values[n][1] = "l"
                  THEN \A k \in DOMAIN values[n][2] :
                          call.result[2][FlatOffset(values, n - 1) + k] = values[n][2][k]
                  ELSE call.result[2][FlatOffset(values, n - 1) + 1] = values[n]
        /\ call.linkMerge \in {"merge_nested", "absent"} => call.result = <<"return", values>>
        /\ call.linkMerge \notin {"merge_flattened", "merge_nested", "absent"} =>
             call.result = <<"raise", "ValidationException">>

\* C20's case: merge_flattened on a list, a value and a list that holds a
\* list.
C20_Witness ==
    /\ call # None
    /\ call.f = "link_merge"
    /\ call.linkMerge = "merge_flattened"
    /\ call.values = << <<"l", <<<<"v", 1>>, <<"v", 2>>>>>>, <<"v", 2>>,
                        <<"l", <<<<"l", <<<<"v", 1>>>>>>>>>> >>
    /\ call.result = <<"return", << <<"v", 1>>, <<"v", 2>>, <<"v", 2>>,
                                    <<"l", <<<<"v", 1>>>>>> >> >>

\* The positions of the source steps that were skipped.
SkippedSources == {n \in DOMAIN call.steps : call.steps[n].when = "false"}

RECURSIVE HasSkip(_)
HasSkip(value) ==
    \/ value[1] = "skip"
    \/ value[1] = "l" /\ \E n \in DOMAIN value[2] : HasSkip(value[2][n])
    \/ value[1] = "d" /\ \E n \in DOMAIN value[2] : HasSkip(value[2][n][2])

\* Two values are the same but for the sentinels of the first, which are null
\* in the second.
RECURSIVE SkipsAreNull(_, _)
SkipsAreNull(before, after) ==
    IF before[1] = "skip" THEN after = <<"null">>
    ELSE IF before[1] \in {"l", "d"}
    THEN /\ after[1] = before[1]
         /\ Len(after[2]) = Len(before[2])
         /\ \A n \in DOMAIN before[2] :
              IF before[1] = "l" THEN SkipsAreNull(before[2][n], after[2][n])
              ELSE /\ after[2][n][1] = before[2][n][1]
                   /\ SkipsAreNull(before[2][n][2], after[2][n][2])
    ELSE after = before

\* C22: the value that the resolve of a ResolveSource, of a DefaultWithSource
\* or of a StepValueFrom returns holds no sentinel at any depth of lists and
\* dictionaries, and what a ResolveSource or a StepValueFrom returns is the
\* value pick_value returned with null for every sentinel.
C22_NoSkipEscapes ==
    (call # None /\ call.f = "resolve" /\ call.result # None /\ call.result[1] = "return") =>
        /\ ~HasSkip(call.result[2])
        /\ call.holder # "DefaultWithSource" => SkipsAreNull(call.result[3], call.result[2])

\* C22's case: pick_value returned a dictionary that holds a list with a
\* sentinel, and the resolved value has a null in its place.
C22_Witness ==
    /\ call # None
    /\ call.f = "resolve"
    /\ call.holder = "StepValueFrom"
    /\ call.result # None
    /\ call.result[1] = "return"
    /\ call.result[3] = <<"d", << <<"k", <<"l", << <<"skip">> >> >> >> >> >>
    /\ call.result[2] = <<"d", << <<"k", <<"l", << <<"null">> >> >> >> >> >>

\* C23: on a dictionary that is not an UnresolvedDict and has no
\* StepValueFrom entry, resolve_dict_w_promises returns a dictionary with the
\* same pairs, returns the same again when it is applied to that, and leaves the
\* dictionary it was handed as it was.
C23_ResolveTwiceIsResolveOnce ==
    (/\ call # None
     /\ call.f = "resolve_dict_w_promises"
     /\ call.once # None
     /\ ~call.dict.unresolved
     /\ \A n \in DOMAIN call.dict.items : call.dict.items[n][1] # "StepValueFrom") =>
        /\ call.once.status = "return"
        /\ call.once.result.items = call.dict.items
        /\ call.once.input = call.dict
        /\ call.twice # None =>
             /\ call.twice.status = "return"
             /\ call.twice.result = call.once.result
             /\ call.twice.input = call.once.result

\* C23's case: a dictionary of a value and a file has been resolved twice,
\* with a file store at hand.
C23_Witness ==
    /\ call # None
    /\ call.f = "resolve_dict_w_promises"
    /\ call.file_store
    /\ call.dict = [unresolved |-> FALSE, items |-> << <<"v", "a">>, FileValue >>]
    /\ call.twice # None
    /\ call.twice.result.items = << <<"v", "a">>, FileValue >>

\* The scatter of the call is a dotproduct.
IsDotproduct ==
    call # None /\ call.f = "scatter"
    /\ (Len(call.scatter) = 1 \/ call.scatterMethod = "dotproduct")

\* C24: (the statement that fails) a dotproduct over scatter inputs of
\* different lengths is rejected, and it adds no child.
C24_UnequalLengthsRejected ==
    (/\ IsDotproduct
     /\ call.pc # "start"
     /\ \E m, n \in DOMAIN call.scatter :
          AxisLen(call.cwljob, call.scatter[m]) # AxisLen(call.cwljob, call.scatter[n])) =>
        /\ call.pc = "failed"
        /\ call.children = <<>>

C30_Crossproducts ==
    (/\ call # None /\ call.f = "scatter"
     /\ call.pc # "start"
     /\ Len(call.scatter) = 2
     /\ call.scatterMethod \in {"flat_crossproduct", "nested_crossproduct"}) =>
        LET n1 == AxisLen(call.cwljob, call.scatter[1])
            n2 == AxisLen(call.cwljob, call.scatter[2])
        IN /\ call.pc # "failed"
           /\ Len(call.children) = n1 * n2
           /\ \A i \in 1..n1 : \A j \in 1..n2 :
                /\ call.children[(i - 1) * n2 + j][call.scatter[1]]
                      = call.cwljob[call.scatter[1]][2][i]
                /\ call.children[(i - 1) * n2 + j][call.scatter[2]]
                      = call.cwljob[call.scatter[2]][2][j]
           /\ call.pc = "gathered" =>
                \A k \in {"out", "log"} :
                   IF call.scatterMethod = "flat_crossproduct"
                   THEN /\ Len(call.outobj[k][2]) = n1 * n2
                        /\ \A c \in 1..(n1 * n2) : call.outobj[k][2][c] = call.results[c][k]
                   ELSE /\ Len(call.outobj[k][2]) = n1
                        /\ \A i \in 1..n1 :
                             /\ call.outobj[k][2][i][1] = "l"
                             /\ Len(call.outobj[k][2][i][2]) = n2
                             /\ \A j \in 1..n2 :
                                  call.outobj[k][2][i][2][j]
                                     = call.results[(i - 1) * n2 + j][k]

\* C30's case: a nested_crossproduct of two by two, gathered after the
\* children returned last first.
C30_Witness ==
    /\ call # None /\ call.f = "scatter"
    /\ call.scatterMethod = "nested_crossproduct"
    /\ call.scatter = <<"y", "x">>
    /\ call.pc = "gathered"
    /\ call.finished = <<4, 3, 2, 1>>
    /\ call.cwljob["x"] = <<"l", << <<"v", 1>>, <<"v", 2>> >> >>
    /\ call.cwljob["y"] = <<"l", << <<"v", 2>>, <<"v", 1>> >> >>

\* The index of the first call of a script that does not end with a
\* CalledProcessErrorStderr, 0 if there is none.
FirstNotCpe(outs) ==
    IF \E i \in 1..Len(outs) : outs[i] # "cpe"
    THEN CHOOSE i \in 1..Len(outs) : outs[i] # "cpe" /\ \A k \in 1..(i - 1) : outs[k] = "cpe"
    ELSE 0

\* C7: with_retries makes at most three calls; it returns the first success
\* among them, raises the third CalledProcessErrorStderr when all three fail
\* so, and raises any other error at once, without another call.
C7_WithRetries ==
    retry # None /\ retry.result # None =>
        LET r == retry.result
            f == FirstNotCpe(retry.outs)
        IN /\ r.calls <= 3
           /\ r.end # "pending"
           /\ IF f \in 1..3
              THEN /\ r.calls = f
                   /\ r.at = f
                   /\ r.end = IF retry.outs[f] = "ok" THEN "returned" ELSE "other"
              ELSE /\ r.calls = 3
                   /\ r.at = 3
                   /\ r.end = "cpe"

\* C7's case: the operation failed three times with CalledProcessErrorStderr
\* and would have succeeded at a fourth call.
C7_Witness ==
    /\ retry # None
    /\ retry.result # None
    /\ retry.outs = <<"cpe", "cpe", "cpe", "ok">>
    /\ retry.result.end = "cpe"

\* C8: when a scheduler call has failed through all of with_retries' tries,
\* the worker thread is still there to serve the other jobs.
C8_WorkerSurvivesSchedulerError ==
    (hist.failed # None /\ hist.failed[3] = "cpe") => pc # "crashed"

\* A checkOnJobs call that returns.
CheckReturns == pc = "check" /\ pc' = "step"

\* C9 as stated: of two consecutive checkOnJobs calls less than
\* statePollingWait apart, the second asks the scheduler nothing, puts no
\* update and returns what the first returned, and the two make at most one
\* status query between them.
C9_SecondCallIsCached ==
    [][(CheckReturns /\ lastCheck # None /\ Within(sinceCheck)) =>
          /\ lastCheck'[2] = 0
          /\ lastCheck[2] + lastCheck'[2] <= 1
          /\ updatedLog' = updatedLog
          /\ lastCheck'[3] = lastCheck[3]]_vars

\* C9, amended: a checkOnJobs call less than statePollingWait after the last
\* real polling pass asks the scheduler nothing, puts no update, changes
\* nothing and returns what that pass returned; so of two consecutive calls
\* less than statePollingWait apart at most one is a real pass; and a real
\* pass makes at most one status query per running job.
C9_CachedWithinWaitOfRealPass ==
    [][CheckReturns =>
          /\ Within(checkTS) =>
               /\ ~lastCheck'[1]
               /\ lastCheck'[2] = 0
               /\ lastCheck'[3] = lastCheck[3]
               /\ UNCHANGED <<updatedLog, runningJobs, batchJobIDs, checkCache, checkTS>>
          /\ ~Within(checkTS) => lastCheck'[1] /\ checkTS' = <<0>>
          /\ (lastCheck # None /\ Within(sinceCheck)) => ~(lastCheck[1] /\ lastCheck'[1])
          /\ lastCheck'[2] <= Cardinality(runningJobs)]_vars

\* C9's case: a checkOnJobs call was answered from the cache while a running
\* job had its exit code ready at the scheduler.
C9_Witness ==
    /\ lastCheck # None
    /\ ~lastCheck[1]
    /\ pc = "step"
    /\ sinceCheck = <<0>>
    /\ \E j \in runningJobs : sched[getBatchSystemID(batchJobIDs, j)] # None

\* C10 as stated: no two real queries of the scheduler come less than
\* statePollingWait apart, whichever of checkOnJobs, the kill confirmation and
\* getRunningBatchJobIDs makes them.
C10_OneQueryPerInterval == ~close

\* C10, amended: checkOnJobs and getRunningBatchJobIDs each keep their own
\* timestamp and cache: a getRunningBatchJobIDs call goes to the scheduler only
\* when its own last listing is at least statePollingWait old and otherwise
\* returns what it cached, and a real checkOnJobs pass comes only when the
\* last one is at least statePollingWait old; the kill confirmation asks the
\* scheduler at every turn.
C10_OneQueryPerCache ==
    /\ [](lastRunning # None =>
            /\ lastRunning[1] => ~Within(lastRunning[3])
            /\ ~lastRunning[1] => Within(lastRunning[3]) /\ lastRunning[2])
    /\ [][(CheckReturns /\ lastCheck'[1]) => ~Within(checkTS)]_vars
    /\ [][hist'.confirmed # hist.confirmed => queryAge' # None /\ Within(queryAge')]_vars

\* C10's case: two real queries have come less than statePollingWait apart,
\* and a getRunningBatchJobIDs call and a checkOnJobs call were answered from
\* their caches.
C10_Witness ==
    /\ close
    /\ lastRunning # None
    /\ ~lastRunning[1]
    /\ lastCheck # None
    /\ ~lastCheck[1]
    /\ hist.confirmed # {}

\* C26 as stated: of the processes that share the cache, at most one at a
\* time is asking the backend for credentials.
C26_OneRequesterAtATime == cred # None => Cardinality(Requesting) <= 1

\* A record as the winner writes it, whatever its expiry.
IsCompleteRecord(content) == \E expiry \in 0..(MaxClock + 1) : content = Record(expiry)

\* C26, amended: at most one process at a time holds .tmp, the one whose
\* O_EXCL create succeeded; only that process writes to a cache file or
\* renames .tmp over the cache; a process that lost the race stays waiting
\* for as long as .tmp exists. A process asks the backend without holding
\* .tmp only after it read an empty cache file or when the cache directory is
\* missing on a read-only file system, and such requests may overlap each
\* other and the holder's.
C26_OneHolderAtATime ==
    /\ [](cred # None =>
            /\ Cardinality(Holders) <= 1
            /\ \A p \in Holders : cred.tmp # 0 /\ cred.fd[p] = cred.tmp
            /\ \A p \in Procs :
                 /\ cred.pc[p] = "request_empty" => cred.seen[p] = <<"read", <<>>>>
                 /\ cred.pc[p] = "request_own" => cred.rofs /\ cred.path = 0)
    /\ [][cred # None =>
            /\ cred'.files # cred.files =>
                 \/ /\ cred.tmp = 0
                    /\ cred'.files = Append(cred.files, <<>>)
                    /\ \E p \in Procs : cred.pc[p] = "race" /\ Holders' = {p}
                 \/ /\ Len(cred'.files) = Len(cred.files)
                    /\ \E p \in Holders :
                         \A i \in 1..Len(cred.files) :
                            cred'.files[i] # cred.files[i] => i = cred.fd[p]
            /\ cred'.path # cred.path =>
                 \E p \in Holders : cred'.pc[p] = "done" /\ cred'.path = cred.fd[p]
            /\ \A p \in Procs :
                 cred.pc[p] = "wait" /\ cred.tmp # 0 => cred'.pc[p] = "wait"]_vars

\* C26's case: one process is writing the record into .tmp while another,
\* having lost the race, waits and a third asks the backend.
C26_Witness ==
    /\ cred # None
    /\ \E p \in Procs, q \in Procs :
         /\ cred.pc[p] = "write"
         /\ cred.files[cred.tmp] # <<>>
         /\ cred.pc[q] = "wait"

\* C27: the file at the cache path is at every moment absent, empty or a
\* complete four-line record, and so is everything a reader has open or has
\* read: no reader fails on a record cut short, which stays in .tmp.
C27_CacheNeverPartial ==
    cred # None =>
        /\ cred.path # 0 =>
             cred.files[cred.path] = <<>> \/ IsCompleteRecord(cred.files[cred.path])
        /\ \A p \in Procs :
             /\ cred.pc[p] = "opened" =>
                  cred.files[cred.fd[p]] = <<>> \/ IsCompleteRecord(cred.files[cred.fd[p]])
             /\ cred.seen[p] # None =>
                  cred.seen[p][2] = <<>> \/ IsCompleteRecord(cred.seen[p][2])
             /\ cred.err[p] \notin {"ValueError", "Number of cached credentials is not 4."}

\* C27's case: a reader has read a record that a winner of this run wrote and
\* renamed, and .tmp now holds a record cut short.
C27_Witness ==
    /\ cred # None
    /\ cred.path > 1
    /\ cred.tmp # 0
    /\ cred.files[cred.tmp] # <<>>
    /\ ~IsCompleteRecord(cred.files[cred.tmp])
    /\ \E p \in Procs : /\ cred.seen[p] # None
                        /\ cred.seen[p][2] = cred.files[cred.path]
                        /\ IsCompleteRecord(cred.seen[p][2])

\* The requests that were open in the last poll.
LastOpen == {spot.requests[i].id : i \in {j \in 1..Len(spot.requests) :
                                             spot.requests[j].state[1] = "open"}}

\* C28 as stated: when wait_spot_requests_active has ended, by return or by
\* exception, it has cancelled exactly the requests that were open in its
\* last poll, in one call, and has cancelled nothing when none was open.
C28_CancelsOpenOfLastPoll ==
    (spot # None /\ spot.pc \in {"returned", "raised"}) =>
        spot.cancelled = IF LastOpen = {} THEN <<>> ELSE <<LastOpen>>

\* C29: a tool job or a sub-workflow job whose `when` is false on the
\* resolved inputs returns, straight after the resolution, the dictionary
\* that maps every declared output port to the skip sentinel: nothing of the
\* body has happened, no tool run, no staging or import, no step job; and a
\* `when` that is not a boolean makes run fail at the same place.
C29_SkippedBeforeBody ==
    (call # None /\ call.f = "run") =>
        /\ call.when = "false" =>
             /\ BodyEffects(call.effects) = {}
             /\ call.pc \in {"start", "resolved", "raised", "returned"}
             /\ call.pc = "raised" => call.result = <<"raise", "AttributeError">>
             /\ call.pc = "returned" =>
                  call.result = <<"return", [k \in {"out", "log"} |-> <<"skip">>]>>
        /\ call.when = "other" =>
             /\ BodyEffects(call.effects) = {}
             /\ call.pc \in {"start", "resolved", "raised"}
             /\ call.pc = "raised" =>
                  call.result \in {<<"raise", "AttributeError">>, <<"raise", "WorkflowException">>}
        /\ (call.when \in {"true", "absent"} /\ call.pc = "returned") =>
             /\ BodyEffects(call.effects) = {RunBody(call.kind)[i] :
                                               i \in 1..Len(RunBody(call.kind))}
             /\ call.result = <<"return", [k \in {"out", "log"} |-> <<"v", "a">>]>>

\* C29's case: a sub-workflow job whose `when` is false has returned, after
\* the resolution of its inputs read the contents of a file.
C29_Witness ==
    /\ call # None
    /\ call.f = "run"
    /\ call.kind = "workflow"
    /\ call.when = "false"
    /\ call.pc = "returned"
    /\ call.effects = <<"loadContents">>

\* The job has so far only written files, by write_file or through
\* upload_file and upload_directory.
OnlyWrites == call # None /\ call.f = "files" /\ "toil_get_file" \notin call.ops

\* C31: over the write_file calls of a job on one index and one existing
\* dictionary, the uploader is called at most once for each URI, a call with
\* a URI that a call before it had returns what that call returned without
\* another upload, and after every call existing[index[u]] = u for every u
\* of the index.
C31_OneUploadPerURI ==
    /\ [](OnlyWrites =>
            /\ \A i \in 1..Len(call.uploads), j \in 1..Len(call.uploads) :
                 call.uploads[i] = call.uploads[j] => i = j
            /\ \A u \in DOMAIN call.index :
                 /\ call.index[u] \in DOMAIN call.existing
                 /\ call.existing[call.index[u]] = u)
    /\ [][(OnlyWrites /\ OnlyWrites' /\ call'.n = call.n + 1
               /\ call'.last.op = "write_file"
               /\ call'.last.arg \in DOMAIN call.wrote) =>
            /\ call'.result = <<"return", call.wrote[call'.last.arg]>>
            /\ call'.uploads = call.uploads]_vars

\* C31's case: write_file was called again for an output it had uploaded,
\* after another output was uploaded too.
C31_Witness ==
    /\ OnlyWrites
    /\ call.last # None
    /\ call.last.op = "write_file"
    /\ call.last.arg[1] = "file"
    /\ call.last.arg \in DOMAIN call.last.index
    /\ Len(call.uploads) = 2
    /\ call.uploads = call.last.uploads
    /\ call.result = <<"return", call.index[call.last.arg]>>

\* C32 as stated: write_file on the file: URI that toil_get_file returned for
\* a file of the job store returns the toilfile: URI the file was fetched
\* from, and uploads nothing.
C32_GetThenWriteIsIdentity ==
    (call # None /\ call.f = "files" /\ call.last # None /\ call.last.op = "write_file"
       /\ call.last.arg \in DOMAIN call.fetched /\ call.result[1] = "return") =>
        /\ call.result[2] = call.fetched[call.last.arg]
        /\ call.uploads = call.last.uploads

\* C33: upload_file, upload_directory and write_file on a location that
\* starts with toilfile:, toildir: or _: leave the location as it is, call
\* no uploader, and leave index and existing as they are.
C33_ToilLocationsPassThrough ==
    (call # None /\ call.f = "files" /\ call.last # None
       /\ call.last.op \in {"write_file", "upload_file", "upload_directory"}
       /\ call.last.arg[1] \in {"toilfile", "toildir", "_"}) =>
        /\ call.result = <<"return", call.last.arg>>
        /\ call.uploads = call.last.uploads
        /\ call.index = call.last.index
        /\ call.existing = call.last.existing

\* C33's case: a Directory whose location is a toildir: URI was imported
\* after a file of the job had been uploaded.
C33_Witness ==
    /\ call # None
    /\ call.f = "files"
    /\ call.last # None
    /\ call.last.op = "upload_directory"
    /\ call.last.arg[1] = "toildir"
    /\ Len(call.uploads) > 0
    /\ DOMAIN call.index # {}

\* C34 as stated: when the outputs of a tool job are imported, every writer
\* thread toil_get_file started has ended and was joined, and the read end
\* toil_get_file opened on its pipe is closed.
C34_WritersJoinedBeforeImport ==
    (call # None /\ call.f = "pipes" /\ call.pc = "import_files") =>
        \A t \in DOMAIN call.threads :
           /\ call.threads[t].state = "done"
           /\ call.threads[t].joined
           /\ call.threads[t].fd = "closed"

\* C35 as stated: whenever getUpdatedBatchJob takes an item from
\* updatedJobsQueue, the job id of the item is in currentJobs, so that
\* currentJobs.remove does not raise.
C35_UpdatedJobIsCurrent ==
    [][updatedRead' # updatedRead => Head(updatedJobsQueue).jobID \in currentJobs]_vars

\* C36: while the worker thread runs, every killBatchJobs that was called
\* returns.  Each id it takes from killedJobsQueue is one it still waits for,
\* and between two calls the queue is empty, so each id of a call was put
\* exactly once.  The id taken leaves currentJobs and the cached snapshot of
\* getRunningBatchJobIDs, and neither gains an id during the call, so at the
\* return no id of the call is in either.
C36_KillReturns ==
    /\ [](pc # "crashed") => ((fpc = "killing") ~> (fpc = "idle"))
    /\ [](fpc = "idle" => killedJobsQueue = <<>>)
    /\ [][killedRead' # killedRead =>
            /\ Head(killedJobsQueue) \in killPending
            /\ Head(killedJobsQueue) \notin killPending'
            /\ Head(killedJobsQueue) \notin currentJobs'
            /\ Head(killedJobsQueue) \notin runningCache']_vars
    /\ [][fpc = "killing" =>
            /\ currentJobs' \subseteq currentJobs
            /\ runningCache' \subseteq runningCache
            /\ killPending' \subseteq killPending
            /\ (fpc' = "idle" => killPending' = {})]_vars

\* C36's case: a killBatchJobs for two ids has returned; the worker had to wait
\* for the scheduler to end a job it killed, and an id of the call had been
\* in the cached snapshot of the running jobs.
C36_Witness ==
    /\ fpc = "idle"
    /\ kills = 1
    /\ killedRead = 2
    /\ hist.confirmed # {}
    /\ runningCacheTS # None
    /\ pc # "crashed"

\* C37: when createJobs, killJobs or checkOnJobs has returned, the keys of
\* batchJobIDs are the ids in runningJobs, and getBatchSystemID gives the
\* batch id of every running job.
C37_BatchIDsAreRunning ==
    pc \in {"create", "check", "step"} =>
        /\ DOMAIN batchJobIDs = runningJobs
        /\ \A j \in runningJobs :
              /\ j \in DOMAIN batchJobIDs
              /\ getBatchSystemID(batchJobIDs, j) \in DOMAIN sched

\* C37's case: checkOnJobs has returned; it or an earlier call forgot a job
\* that had ended, killJobs forgot one it killed, and a third job runs.
C37_Witness ==
    /\ pc = "step"
    /\ runningJobs # {}
    /\ hist.confirmed # {}
    /\ updatedLog # <<>>

\* C38 as stated: every pass of the translator loop that does not end the
\* loop gives a job to a step that had none, so that when the k-th pass has
\* not ended the loop at least k steps have jobs, whatever the workflow.
C38_EveryPassSchedules ==
    [][(tr # None /\ tr.pc = "pass" /\ tr'.pc = "pass" /\ tr'.passes = tr.passes + 1) =>
            Cardinality(DOMAIN tr.jobs) >= tr.passes]_vars

\* C39 as stated: a process that lost the race for .tmp leaves its wait loop
\* and starts again from the top.
C39_LoserRetries ==
    \A p \in Procs : (cred.pc[p] = "wait") ~> (cred.pc[p] = "top")

====
